---- MODULE Spec2Model ----
(***************************************************************************)
(* EHS-Sentinel: the NASA packet codec (NASAPacket / NASAMessage), the     *)
(* ingress handler process_packet with the message processor, and the      *)
(* request producer (MessageProducer), as a state machine.                 *)
(*                                                                         *)
(* Bytes are integers 0..255, byte strings are sequences (index 1 is       *)
(* Python index 0).  A Python exception is a value of the "exc" field of a *)
(* result record; "None" stands for Python's None.  The model follows      *)
(* CPython >= 3.11 (int.to_bytes with a default byte order).               *)
(***************************************************************************)
EXTENDS Integers, Sequences, FiniteSets, TLC

None == "None"

(***************************************************************************)
(* Python primitives used by the code.                                     *)
(***************************************************************************)
Min(a, b) == IF a < b THEN a ELSE b

Max(a, b) == IF a < b THEN b ELSE a

\* s[lo:hi] with 0 <= lo, 0 <= hi: clamped, never raises.
PySlice(s, lo, hi) == SubSeq(s, lo + 1, Min(hi, Len(s)))

\* s[lo:]
PyFrom(s, lo) == SubSeq(s, lo + 1, Len(s))

\* s[lo:-k], k > 0
PyCut(s, lo, k) == SubSeq(s, lo + 1, Len(s) - k)

Pow2(k) == 2 ^ k

\* bit k of x
Bit(x, k) == (x \div Pow2(k)) % 2

\* x ^ (1 << k)
ToggleBit(x, k) == IF Bit(x, k) = 1 THEN x - Pow2(k) ELSE x + Pow2(k)

(***************************************************************************)
(* binascii.crc_hqx(data, value): CRC-16-CCITT, polynomial 0x1021, most    *)
(* significant bit first, no reflection, no final xor.                     *)
(***************************************************************************)
\* one message bit shifted into the register
crc_bit(crc, bit) ==
    LET step[c \in 0 .. 65535] ==
            IF c \div 32768 # bit
            THEN ToggleBit(ToggleBit(ToggleBit((c * 2) % 65536, 12), 5), 0)
            ELSE (c * 2) % 65536
    IN  step[crc]

\* the loop stops one bit early
crc_byte_seven_bits(crc, byte) ==
    crc_bit(crc_bit(crc_bit(crc_bit(crc_bit(crc_bit(crc_bit(
      crc, Bit(byte, 7)), Bit(byte, 6)), Bit(byte, 5)), Bit(byte, 4)),
      Bit(byte, 3)), Bit(byte, 2)), Bit(byte, 1))

\* the eight bits of one byte, most significant first
crc_byte(crc, byte) ==
    crc_bit(crc_bit(crc_bit(crc_bit(crc_bit(crc_bit(crc_bit(crc_bit(
      crc, Bit(byte, 7)), Bit(byte, 6)), Bit(byte, 5)), Bit(byte, 4)),
      Bit(byte, 3)), Bit(byte, 2)), Bit(byte, 1)), Bit(byte, 0))

\* the register after the first n bytes of data
RECURSIVE crc_upto(_, _, _)
crc_upto(data, n, value) ==
    IF n = 0 THEN value
    ELSE LET next[c \in 0 .. 65535] == crc_byte(c, data[n])
         IN  next[crc_upto(data, n - 1, value)]

crc_hqx(data, value) == crc_upto(data, Len(data), value)

(***************************************************************************)
(* NASAPacket.py: the enumerations.                                        *)
(***************************************************************************)
Outdoor == 16
Indoor == 32
WiFiKit == 98
JIGTester == 128
BroadcastSelfLayer == 176
BroadcastSetLayer == 178

AddressClassEnum ==
    {16, 17, 32, 48, 53, 56, 64, 80, 88, 89, 90, 91, 96, 98, 101, 106, 128,
     176, 177, 178, 179, 180, 183, 184, 191, 255}

PacketType == 0 .. 4
PacketType_Normal == 1

DataType == 0 .. 7
DataType_Read == 1
DataType_Request == 3
DataType_Notification == 4

(***************************************************************************)
(* NASAMessage.py                                                          *)
(***************************************************************************)
\* NASAMessage(packet_message, packet_message_type, packet_payload)
NASAMessage(packet_message, packet_message_type, packet_payload) ==
    [packet_message |-> packet_message,
     packet_message_type |-> packet_message_type,
     packet_payload |-> packet_payload]

\* the attributes an instance of NASAMessage answers to
NASAMessage_methods ==
    {"set_packet_message", "set_packet_message_type", "set_packet_payload",
     "to_raw", "__str__", "__repr__"}

(***************************************************************************)
(* NASAPacket._extract_messages                                            *)
(***************************************************************************)
\* a shift by 8 instead of 9
message_type_shift8(message_number) == (message_number \div 256) % 4

\* (message_number & 1536) >> 9
message_type_of(message_number) == (message_number \div 512) % 4

\* the rule written as "more than one"
structure_capacity_above_one(capacity) == capacity > 1

\* the structure rule: a type-3 message needs capacity 1
structure_capacity_invalid(capacity) == capacity # 1

\* the recursion's stop test
extract_stop(depth, capacity, msg_rest) ==
    depth > capacity \/ Len(msg_rest) <= 2

RECURSIVE extract_messages_rec(_, _, _, _)
extract_messages_rec(depth, capacity, msg_rest, return_list) ==
    IF extract_stop(depth, capacity, msg_rest)
    THEN [exc |-> None, why |-> None, list |-> return_list]
    ELSE
      LET message_number == msg_rest[1] * 256 + msg_rest[2]
          message_type == message_type_of(message_number)
          payload_size == CASE message_type = 0 -> 1
                            [] message_type = 1 -> 2
                            [] message_type = 2 -> 4
                            [] OTHER -> Len(msg_rest)
          payload == PySlice(msg_rest, 2, 2 + payload_size)
      IN  IF message_type = 3 /\ structure_capacity_invalid(capacity)
          THEN [exc |-> "SkipInvalidPacketException",
                why |-> "structure", list |-> <<>>]
          ELSE IF message_type \notin 0 .. 3
          THEN [exc |-> "ValueError", why |-> "type", list |-> <<>>]
          ELSE IF Len(payload) > 255
          THEN [exc |-> "ValueError", why |-> "payload", list |-> <<>>]
          ELSE extract_messages_rec(
                 depth + 1, capacity, PyFrom(msg_rest, 2 + payload_size),
                 Append(return_list,
                        NASAMessage(message_number, message_type, payload)))

(***************************************************************************)
(* NASAPacket.parse                                                        *)
(***************************************************************************)
\* only the low byte compared
crc_mismatch_low_byte(crc_checksum, packet_crc16) ==
    crc_checksum % 256 # packet_crc16 % 256

\* the comparison that ends parse
crc_mismatch(crc_checksum, packet_crc16) == crc_checksum # packet_crc16

\* the attributes NASAPacket.__init__ sets to None
NASAPacket_fields ==
    {"packet_start", "packet_size", "packet_source_address_class",
     "packet_source_channel", "packet_source_address",
     "packet_dest_address_class", "packet_dest_channel",
     "packet_dest_address", "packet_information", "packet_version",
     "packet_retry_count", "packet_type", "packet_data_type",
     "packet_number", "packet_capacity", "packet_messages", "packet_crc16",
     "packet_end"}

\* NASAPacket(): every attribute is None; "unset" names the attributes that
\* are None, whatever the record holds for them
NASAPacket_new ==
    [unset |-> NASAPacket_fields,
     packet_start |-> 0, packet_size |-> 0,
     packet_source_address_class |-> 0, packet_source_channel |-> 0,
     packet_source_address |-> 0, packet_dest_address_class |-> 0,
     packet_dest_channel |-> 0, packet_dest_address |-> 0,
     packet_information |-> FALSE, packet_version |-> 0,
     packet_retry_count |-> 0, packet_type |-> 0,
     packet_data_type |-> 0, packet_number |-> 0,
     packet_capacity |-> 0, packet_messages |-> <<>>,
     packet_crc16 |-> 0, packet_end |-> 0]

\* the attributes an instance of NASAPacket answers to besides its fields
NASAPacket_methods ==
    {"parse", "_extract_messages", "__str__", "__repr__", "to_raw",
     "set_packet_source_address_class", "set_packet_source_channel",
     "set_packet_source_address", "set_packet_dest_address_class",
     "set_packet_dest_channel", "set_packet_dest_address",
     "set_packet_information", "set_packet_version",
     "set_packet_retry_count", "set_packet_type", "set_packet_data_type",
     "set_packet_number", "set_packet_capacity", "set_packet_messages"}

\* parse left by an exception: the half-filled object is discarded
Raise(exc, why) == [exc |-> exc, why |-> why, pkt |-> NASAPacket_new]

parse(packet) ==
    IF Len(packet) < 14 THEN Raise("ValueError", "short")
    ELSE
      LET n == Len(packet)
          crc_checksum == crc_hqx(PyCut(packet, 3, 3), 0)
          packet_crc16 == packet[n - 2] * 256 + packet[n - 1]
          packet_capacity == packet[13]
          extracted == extract_messages_rec(0, packet_capacity,
                                            PyCut(packet, 13, 3), <<>>)
      IN  IF packet[4] \notin AddressClassEnum
          THEN Raise("SkipInvalidPacketException", "source")
          ELSE IF packet[7] \notin AddressClassEnum
          THEN Raise("SkipInvalidPacketException", "destination")
          ELSE IF packet[11] \div 16 \notin PacketType
          THEN Raise("ValueError", "packet_type")
          ELSE IF packet[11] % 16 \notin DataType
          THEN Raise("ValueError", "data_type")
          ELSE IF extracted.exc # None
          THEN Raise(extracted.exc, extracted.why)
          ELSE IF crc_mismatch(crc_checksum, packet_crc16)
          THEN Raise("SkipInvalidPacketException", "crc")
          ELSE [exc |-> None, why |-> None,
                pkt |-> [unset |-> {},
                         packet_start |-> packet[1],
                         packet_size |-> packet[2] * 256 + packet[3],
                         packet_source_address_class |-> packet[4],
                         packet_source_channel |-> packet[5],
                         packet_source_address |-> packet[6],
                         packet_dest_address_class |-> packet[7],
                         packet_dest_channel |-> packet[8],
                         packet_dest_address |-> packet[9],
                         packet_information |-> Bit(packet[10], 7) = 1,
                         packet_version |-> (packet[10] \div 32) % 4,
                         packet_retry_count |-> (packet[10] \div 8) % 4,
                         packet_type |-> packet[11] \div 16,
                         packet_data_type |-> packet[11] % 16,
                         packet_number |-> packet[12],
                         packet_capacity |-> packet_capacity,
                         packet_messages |-> extracted.list,
                         packet_crc16 |-> packet_crc16,
                         packet_end |-> packet[n]]]

(***************************************************************************)
(* NASAPacket.to_raw                                                       *)
(***************************************************************************)
\* the attributes to_raw reads before it serializes the messages, in order
to_raw_reads ==
    <<"packet_messages", "packet_size", "packet_source_address_class",
      "packet_source_channel", "packet_source_address",
      "packet_dest_address_class", "packet_dest_channel",
      "packet_dest_address", "packet_information", "packet_version",
      "packet_retry_count", "packet_type", "packet_data_type",
      "packet_number", "packet_capacity">>

\* packet[-3], packet[-2], packet[-1] of the allocated bytearray
to_raw_tail(packet, crc) ==
    LET n == Len(packet)
    IN  [packet EXCEPT ![n - 2] = crc \div 256, ![n - 1] = crc % 256,
                       ![n] = 52]

to_raw(self) ==
    LET failed(exc) == [exc |-> exc, bytes |-> <<>>]
        flag == IF self.packet_information THEN 1 ELSE 0
        \* bytearray(14 + len(self.packet_messages) * 2), header filled in
        packet ==
            <<50, (self.packet_size \div 256) % 256, self.packet_size % 256,
              self.packet_source_address_class, self.packet_source_channel,
              self.packet_source_address, self.packet_dest_address_class,
              self.packet_dest_channel, self.packet_dest_address,
              flag * 128 + self.packet_version * 32
                + self.packet_retry_count * 8,
              self.packet_type * 16 + self.packet_data_type,
              self.packet_number, self.packet_capacity, 0>>
    IN  IF \E i \in 1 .. Len(to_raw_reads) : to_raw_reads[i] \in self.unset
        THEN failed(IF "packet_source_address_class" \in self.unset
                       /\ {"packet_messages", "packet_size"} \cap self.unset = {}
                    THEN "AttributeError" ELSE "TypeError")
        ELSE IF Len(self.packet_messages) > 0
                /\ "to_bytes" \notin NASAMessage_methods
        THEN failed("AttributeError")
        ELSE IF "packet_crc16" \in self.unset
        THEN failed("TypeError")
        ELSE [exc |-> None, bytes |-> to_raw_tail(packet, self.packet_crc16)]

(***************************************************************************)
(* EHSConfig.py: the configuration file as loaded, and validate.           *)
(***************************************************************************)
\* a section of the YAML file: missing (config.get gives None), or a
\* mapping with some of its keys
Section(keys) ==
    {[none |-> TRUE, keys |-> {}]} \cup [none : {FALSE}, keys : SUBSET keys]

\* the configuration files of the model; isfile: the repository file exists
Configs ==
    [isfile : BOOLEAN,
     SERIAL : Section({"device", "baudrate"}),
     TCP : Section({"ip", "port"}),
     MQTT : Section({"broker-url", "broker-port", "user", "password"})]

DefaultConfig ==
    [isfile |-> TRUE,
     SERIAL |-> [none |-> FALSE, keys |-> {"device", "baudrate"}],
     TCP |-> [none |-> TRUE, keys |-> {}],
     MQTT |-> [none |-> FALSE, keys |-> {"broker-url", "broker-port"}]]

NotValidated == [exc |-> "pending", message |-> ""]

Passed == [exc |-> None, message |-> ""]

ConfigException(message) == [exc |-> "ConfigException", message |-> message]

\* self.SECTION[key] as the argument of an exception: the subscript is
\* evaluated before the exception is made
subscript(section, key, otherwise) ==
    IF section.none THEN [exc |-> "TypeError", message |-> ""]
    ELSE IF key \notin section.keys THEN [exc |-> "KeyError", message |-> key]
    ELSE otherwise

\* EHSConfig.validate for a file without a polling section
validate(c) ==
    IF ~c.isfile THEN ConfigException("NASA Respository File is missing")
    ELSE IF c.SERIAL.none /\ c.TCP.none
    THEN ConfigException("define tcp or serial config parms")
    ELSE IF ~c.SERIAL.none /\ ~c.TCP.none
    THEN ConfigException(
           "you cannot define tcp and serial please define only one")
    ELSE IF ~c.SERIAL.none /\ "device" \notin c.SERIAL.keys
    THEN subscript(c.SERIAL, "device",
           ConfigException("serial device config parameter is missing"))
    ELSE IF ~c.SERIAL.none /\ "baudrate" \notin c.SERIAL.keys
    THEN subscript(c.SERIAL, "baudrate",
           ConfigException("serial baudrate config parameter is missing"))
    ELSE IF ~c.TCP.none /\ "ip" \notin c.TCP.keys
    THEN subscript(c.TCP, "ip",
           ConfigException("tcp ip config parameter is missing"))
    ELSE IF ~c.TCP.none /\ "port" \notin c.TCP.keys
    THEN subscript(c.TCP, "port",
           ConfigException("tcp port config parameter is missing"))
    ELSE IF c.MQTT.none THEN [exc |-> "TypeError", message |-> ""]
    ELSE IF "broker-url" \notin c.MQTT.keys
    THEN subscript(c.MQTT, "broker-url",
           ConfigException("mqtt broker-url config parameter is missing"))
    ELSE IF "broker-port" \notin c.MQTT.keys
    THEN subscript(c.MQTT, "broker-port",
           ConfigException("mqtt broker-port parameter is missing"))
    ELSE IF "user" \notin c.MQTT.keys /\ "password" \in c.MQTT.keys
    THEN subscript(c.SERIAL, "device",
           ConfigException("mqtt user parameter is missing"))
    ELSE IF "password" \notin c.MQTT.keys /\ "user" \in c.MQTT.keys
    THEN subscript(c.SERIAL, "device",
           ConfigException("mqtt password parameter is missing"))
    ELSE Passed

(***************************************************************************)
(* The repository of points (EHSConfig.NASA_REPO, loaded from the YAML     *)
(* repository file): name -> address, type, arithmetic, enum. An enum is   *)
(* the mapping of the file as its items in file order, <<>> if the point   *)
(* has none.                                                               *)
(***************************************************************************)
NASA_REPO ==
    [COMP_TEMP |-> [address |-> 16967, type |-> "VAR",
                    arithmetic |-> "value / 10",
                    reverse_arithmetic |-> "value * 10", enum |-> <<>>],
     DHW_POWER |-> [address |-> 16485, type |-> "ENUM",
                    arithmetic |-> "", reverse_arithmetic |-> "",
                    enum |-> <<[key |-> 0, label |-> "OFF"],
                               [key |-> 1, label |-> "ON"]>>],
     LVAR_IN_TOTAL |-> [address |-> 17446, type |-> "LVAR",
                    arithmetic |-> "", reverse_arithmetic |-> "",
                    enum |-> <<>>]]

\* int.from_bytes(rawvalue, byteorder='big')
RECURSIVE from_bytes_unsigned(_)
from_bytes_unsigned(raw) ==
    IF Len(raw) = 0 THEN 0
    ELSE from_bytes_unsigned(SubSeq(raw, 1, Len(raw) - 1)) * 256 + raw[Len(raw)]

\* int.from_bytes(rawvalue, byteorder='big', signed=True)
\* (the sign is taken off the first byte, so that four bytes stay within
\* 32-bit integers)
from_bytes_signed(raw) ==
    IF Len(raw) > 0 /\ raw[1] >= 128
    THEN from_bytes_unsigned([raw EXCEPT ![1] = raw[1] - 256])
    ELSE from_bytes_unsigned(raw)

(***************************************************************************)
(* MessageProcessor.py                                                     *)
(***************************************************************************)
\* search_nasa_table(hex(address)): the name of the point, or None
search_nasa_table(address) ==
    IF \E key \in DOMAIN NASA_REPO : NASA_REPO[key].address = address
    THEN CHOOSE key \in DOMAIN NASA_REPO : NASA_REPO[key].address = address
    ELSE None

\* MessageProcessor.extract_messages: depth starts at 1, stops on an empty rest
RECURSIVE extract_messages(_, _, _, _)
extract_messages(depth, capacity, msg_rest, return_list) ==
    IF depth > capacity \/ Len(msg_rest) = 0
    THEN [exc |-> None, list |-> return_list]
    ELSE IF Len(msg_rest) < 2
    THEN [exc |-> "IndexError", list |-> <<>>]
    ELSE
      LET message_number == msg_rest[1] * 256 + msg_rest[2]
          message_type == message_type_of(message_number)
          payload_size == CASE message_type = 0 -> 1
                            [] message_type = 1 -> 2
                            [] message_type = 2 -> 4
                            [] OTHER -> Len(msg_rest)
          payload == PySlice(PySlice(msg_rest, 2, 2 + payload_size), 0, 255)
      IN  IF message_type = 3 /\ capacity # 1
          THEN [exc |-> "MessageWarningException", list |-> <<>>]
          ELSE extract_messages(
                 depth + 1, capacity, PyFrom(msg_rest, 2 + payload_size),
                 Append(return_list,
                        [message_number |-> message_number,
                         message_type |-> message_type,
                         payload |-> payload]))

\* the mapping has this key
has_key(enum, key) == \E i \in 1 .. Len(enum) : enum[i].key = key

\* enum[key]
label_of(enum, key) ==
    enum[CHOOSE i \in 1 .. Len(enum) : enum[i].key = key].label

\* the key determine_value looks up: the payload as an unsigned number
enum_key(rawvalue) == from_bytes_unsigned(rawvalue)

\* determine_value for a point of the repository: the value in thousandths
\* (round(value, 3)), or the label
determine_value_of(point, rawvalue) ==
    LET packed_value == from_bytes_signed(rawvalue)
        key == enum_key(rawvalue)
    IN  IF point.type = "ENUM"
        THEN IF point.enum # <<>>
             THEN IF has_key(point.enum, key)
                  THEN [exc |-> None, value |-> label_of(point.enum, key)]
                  ELSE [exc |-> "KeyError", value |-> None]
             ELSE [exc |-> None,
                   value |-> "Unknown enum value: " \o ToString(packed_value)]
        ELSE IF point.arithmetic = "value / 10"
        THEN [exc |-> None, value |-> packed_value * 100]
        ELSE [exc |-> None, value |-> packed_value * 1000]

determine_value(rawvalue, msgname) ==
    determine_value_of(NASA_REPO[msgname], rawvalue)

\* protocolMessage: the log line; the MQTT publish is a TODO (lines 141-143)
protocolMessage(msg, msgname, msgvalue) ==
    [logged |-> <<[number |-> msg.message_number, name |-> msgname,
                   type |-> msg.message_type, value |-> msgvalue]>>,
     published |-> <<>>]

RECURSIVE process_list(_, _, _)
process_list(list_of_messages, i, acc) ==
    IF i > Len(list_of_messages) THEN acc
    ELSE
      LET msg == list_of_messages[i]
          msgname == search_nasa_table(msg.message_number)
      IN  IF msgname = None
          THEN process_list(list_of_messages, i + 1, acc)
          ELSE
            LET v == determine_value(msg.payload, msgname)
            IN  IF v.exc # None
                THEN [acc EXCEPT !.exc = "MessageWarningException"]
                ELSE
                  LET done == protocolMessage(msg, msgname, v.value)
                  IN  process_list(list_of_messages, i + 1,
                        [exc |-> None,
                         logged |-> acc.logged \o done.logged,
                         published |-> acc.published \o done.published])

\* process_message(message): message is subscripted as a list of bytes
process_message(message) ==
    LET nothing == [exc |-> None, logged |-> <<>>, published |-> <<>>]
    IN  IF message.kind = "NASAPacket" /\ "__getitem__" \notin NASAPacket_methods
        THEN [nothing EXCEPT !.exc = "TypeError"]
        ELSE
          LET m == message.bytes
          IN  IF Len(m) < 4 THEN [nothing EXCEPT !.exc = "IndexError"]
              ELSE IF m[4] \notin AddressClassEnum
              THEN [nothing EXCEPT !.exc = "ValueError"]
              ELSE IF m[Len(m)] # 52 \/ Len(m) < 14
              THEN [nothing EXCEPT !.exc = "MessageWarningException"]
              ELSE
                LET got == extract_messages(1, m[13], PyCut(m, 13, 3), <<>>)
                IN  IF got.exc # None THEN [nothing EXCEPT !.exc = got.exc]
                    ELSE process_list(got.list, 1, nothing)

(***************************************************************************)
(* MessageProducer.py                                                      *)
(***************************************************************************)
_CHUNKSIZE == 10

\* a Python value handed around by the producer
IntValue(n) == [kind |-> "int", int |-> n, text |-> ""]
FloatValue(text) == [kind |-> "float", int |-> 0, text |-> text]
StrValue(text) == [kind |-> "str", int |-> 0, text |-> text]
NoneValue == [kind |-> "None", int |-> 0, text |-> ""]

\* the texts a write request carries, with ten times their number
Tenths == [t \in {"21", "5", "-3", "21.5"} |->
             CASE t = "21" -> 210 [] t = "5" -> 50 [] t = "-3" -> 0 - 30
               [] t = "21.5" -> 215]

\* s.replace('+','',1).replace('-','',1).replace('.','',1).isdigit()
is_number(s) == s \in DOMAIN Tenths

\* value.to_bytes(length, byteorder='big', signed=True)
to_bytes_signed(value, length) ==
    IF value.kind # "int"
    THEN [exc |-> "AttributeError", bytes |-> <<>>]
    ELSE IF value.int < 0 - (256 ^ length) \div 2
            \/ value.int > (256 ^ length) \div 2 - 1
    THEN [exc |-> "OverflowError", bytes |-> <<>>]
    ELSE [exc |-> None,
          bytes |-> [i \in 1 .. length |->
                       ((value.int + 256 ^ length) \div 256 ^ (length - i))
                         % 256]]

\* int(self.config.NASA_REPO[messagename]['address'], 16)
_extract_address(messagename) ==
    IF messagename \in DOMAIN NASA_REPO
    THEN [exc |-> None, value |-> NASA_REPO[messagename].address]
    ELSE [exc |-> "KeyError", value |-> 0]

\* the key of the last item with the label instead of the first
search_enumkey_last(point, value) ==
    LET found == {i \in 1 .. Len(point.enum) : point.enum[i].label = value}
        last_one == CHOOSE i \in found : \A j \in found : j <= i
    IN  IF point.type # "ENUM" THEN [exc |-> None, value |-> NoneValue]
        ELSE IF point.enum = <<>>
        THEN [exc |-> "KeyError", value |-> NoneValue]
        ELSE IF found = {} THEN [exc |-> None, value |-> NoneValue]
        ELSE [exc |-> None, value |-> IntValue(point.enum[last_one].key)]

\* the loop over enum.items(): the key of the first item with the label,
\* or None; KeyError for an ENUM point without mapping
search_enumkey(point, value) ==
    LET found == {i \in 1 .. Len(point.enum) : point.enum[i].label = value}
        first == CHOOSE i \in found : \A j \in found : i <= j
    IN  IF point.type # "ENUM" THEN [exc |-> None, value |-> NoneValue]
        ELSE IF point.enum = <<>>
        THEN [exc |-> "KeyError", value |-> NoneValue]
        ELSE IF found = {} THEN [exc |-> None, value |-> NoneValue]
        ELSE [exc |-> None, value |-> IntValue(point.enum[first].key)]

\* the key of the enum label, or None; KeyError for an unknown point
_search_nasa_enumkey_for_value(message, value) ==
    IF message \notin DOMAIN NASA_REPO
    THEN [exc |-> "KeyError", value |-> NoneValue]
    ELSE search_enumkey(NASA_REPO[message], value)

\* _decode_value for a point of the repository
_decode_value_of(point, value) ==
    LET enumval == search_enumkey(point, value)
    IN  IF enumval.exc # None THEN enumval
        ELSE IF enumval.value # NoneValue THEN enumval
        ELSE IF ~is_number(value) THEN [exc |-> None, value |-> StrValue(value)]
        ELSE IF point.reverse_arithmetic = "value * 10"
        THEN [exc |-> None, value |-> IntValue(Tenths[value])]
        ELSE IF Tenths[value] % 10 = 0
        THEN [exc |-> None, value |-> IntValue(Tenths[value] \div 10)]
        ELSE [exc |-> None, value |-> FloatValue(value)]

\* the text of a write request becomes the number to send
_decode_value(message, value) ==
    IF message \notin DOMAIN NASA_REPO
    THEN [exc |-> "KeyError", value |-> NoneValue]
    ELSE _decode_value_of(NASA_REPO[message], value)

\* NASAMessage() with the address of the point and the value as payload
_build_message(message, value) ==
    LET address == _extract_address(message)
        tmpmsg == [NASAMessage(0, 0, <<0>>)
                     EXCEPT !.packet_message = address.value]
        number == IF value = NoneValue THEN IntValue(0) ELSE value
        value_raw ==
            CASE tmpmsg.packet_message_type = 0 -> to_bytes_signed(number, 1)
              [] tmpmsg.packet_message_type = 1 -> to_bytes_signed(number, 2)
              [] tmpmsg.packet_message_type = 2 -> to_bytes_signed(number, 4)
              [] OTHER -> [exc |-> "MessageWarningException", bytes |-> <<>>]
    IN  IF address.exc # None
        THEN [exc |-> address.exc, msg |-> tmpmsg]
        ELSE IF value_raw.exc # None
        THEN [exc |-> value_raw.exc, msg |-> tmpmsg]
        ELSE IF "set_packet_payload_raw" \notin NASAMessage_methods
        THEN [exc |-> "AttributeError", msg |-> tmpmsg]
        ELSE [exc |-> None,
              msg |-> [tmpmsg EXCEPT !.packet_payload = value_raw.bytes]]

\* the twelve setters both default packets call
default_set ==
    {"packet_source_address_class", "packet_source_channel",
     "packet_source_address", "packet_dest_address_class",
     "packet_dest_channel", "packet_dest_address", "packet_information",
     "packet_version", "packet_retry_count", "packet_type",
     "packet_data_type", "packet_number"}

_build_default_read_packet ==
    [NASAPacket_new EXCEPT
       !.unset = @ \ default_set,
       !.packet_source_address_class = JIGTester,
       !.packet_source_channel = 255,
       !.packet_source_address = 0,
       !.packet_dest_address_class = BroadcastSetLayer,
       !.packet_dest_channel = 0,
       !.packet_dest_address = 32,
       !.packet_information = TRUE,
       !.packet_version = 2,
       !.packet_retry_count = 0,
       !.packet_type = PacketType_Normal,
       !.packet_data_type = DataType_Read,
       !.packet_number = 166]

_build_default_request_packet ==
    [NASAPacket_new EXCEPT
       !.unset = @ \ default_set,
       !.packet_source_address_class = JIGTester,
       !.packet_source_channel = 0,
       !.packet_source_address = 255,
       !.packet_dest_address_class = Indoor,
       !.packet_dest_channel = 0,
       !.packet_dest_address = 0,
       !.packet_information = TRUE,
       !.packet_version = 2,
       !.packet_retry_count = 0,
       !.packet_type = PacketType_Normal,
       !.packet_data_type = DataType_Request,
       !.packet_number = 166]

set_packet_messages(self, value) ==
    [self EXCEPT !.unset = @ \ {"packet_messages"}, !.packet_messages = value]

\* [self._build_message(x) for x in chunk]: the first exception ends it
RECURSIVE build_messages(_, _)
build_messages(chunk, done) ==
    IF Len(chunk) = 0 THEN [exc |-> None, list |-> done]
    ELSE LET built == _build_message(Head(chunk), NoneValue)
         IN  IF built.exc # None THEN [exc |-> built.exc, list |-> <<>>]
             ELSE build_messages(Tail(chunk), Append(done, built.msg))

\* list_of_messages[i:i + _CHUNKSIZE] for i in range(0, len, _CHUNKSIZE)
chunks_of(list_of_messages) ==
    [k \in 1 .. (Len(list_of_messages) + _CHUNKSIZE - 1) \div _CHUNKSIZE |->
       PySlice(list_of_messages, (k - 1) * _CHUNKSIZE, k * _CHUNKSIZE)]

\* one pass of the loop of read_request after its sleep: the packet built,
\* serialized and written
read_chunk(chunk) ==
    LET messages == build_messages(chunk, <<>>)
        nasa_packet ==
            set_packet_messages(_build_default_read_packet, messages.list)
        final_packet == to_raw(nasa_packet)
    IN  IF messages.exc # None
        THEN [exc |-> messages.exc, written |-> <<>>]
        ELSE IF final_packet.exc # None
        THEN [exc |-> final_packet.exc, written |-> <<>>]
        ELSE [exc |-> None, written |-> <<final_packet.bytes>>]

\* the start of the packet written before the value is decoded and encoded
write_packet_start_first(message, value) ==
    LET decoded == _decode_value(message, value.text)
        built == _build_message(message, decoded.value)
    IN  [exc |-> IF value.kind # "str" THEN "AttributeError"
                 ELSE IF decoded.exc # None THEN decoded.exc
                 ELSE IF built.exc # None THEN built.exc
                 ELSE "TypeError",
         written |-> <<<<50>>>>]

\* write_request up to its sleep: the exception it ends with and what it
\* has passed to writer.write by then; value is a str or, misused, an int
write_packet(message, value) ==
    LET decoded == _decode_value(message, value.text)
        built == _build_message(message, decoded.value)
        nasa_packet ==
            set_packet_messages(_build_default_request_packet, <<built.msg>>)
        final_packet == to_raw(nasa_packet)
    IN  IF value.kind # "str"
        THEN [exc |-> "AttributeError", written |-> <<>>]
        ELSE IF decoded.exc # None
        THEN [exc |-> decoded.exc, written |-> <<>>]
        ELSE IF built.exc # None
        THEN [exc |-> built.exc, written |-> <<>>]
        ELSE IF final_packet.exc # None
        THEN [exc |-> final_packet.exc, written |-> <<>>]
        ELSE [exc |-> None, written |-> <<final_packet.bytes>>]

(***************************************************************************)
(* Frames on the bus.  A unit frames a body as test.py does: start byte,   *)
(* size = len(body) + 4, body, crc_hqx(body, 0), end byte.                 *)
(***************************************************************************)
frame_of(body) ==
    LET size == Len(body) + 2 + 2
        crc == crc_hqx(body, 0)
    IN  <<50, size \div 256, size % 256>> \o body
        \o <<crc \div 256, crc % 256, 52>>

\* the frame parsed by test.py, and the same frame with a damaged CRC byte
S1 ==
    <<50, 0, 22, 16, 0, 0, 176, 0, 255, 192, 20, 139, 2,
      130, 55, 0, 32, 130, 56, 0, 35, 184, 206, 52>>

S2 == [S1 EXCEPT ![22] = 185]

\* messages a unit sends: number and payload bytes
WireMessages ==
    << [number |-> 16485, payload |-> <<1>>],
       [number |-> 16967, payload |-> <<1, 44>>],
       [number |-> 17446, payload |-> <<0, 0, 18, 52>>],
       [number |-> 1543, payload |-> <<65, 66>>] >>

\* source address classes seen on the bus; 51 is no address class
WireSources == {Outdoor, Indoor, WiFiKit, JIGTester, 51}

MaxMsgs == 2

RECURSIVE SeqsUpTo(_, _)
SeqsUpTo(S, n) ==
    IF n = 0 THEN {<<>>}
    ELSE LET shorter == SeqsUpTo(S, n - 1)
         IN  shorter \cup {Append(q, x) : q \in shorter, x \in S}

RECURSIVE Flatten(_)
Flatten(ss) == IF Len(ss) = 0 THEN <<>> ELSE Head(ss) \o Flatten(Tail(ss))

wire_message(k) ==
    <<WireMessages[k].number \div 256, WireMessages[k].number % 256>>
    \o WireMessages[k].payload

\* the ten header bytes after the size, as test.py lays them out
wire_body(d) ==
    <<d.src, 0, 0, BroadcastSelfLayer, 0, 255, 192, 20, 139, d.cap>>
    \o Flatten([i \in 1 .. Len(d.msgs) |-> wire_message(d.msgs[i])])
    \o d.tail

\* what a unit sends: a source class, a capacity byte, messages, stray bytes
Sendable ==
    [src : WireSources, cap : 0 .. MaxMsgs + 1,
     msgs : SeqsUpTo(1 .. Len(WireMessages), MaxMsgs),
     tail : {<<>>, <<0>>}]

wire_type(k) == (WireMessages[k].number \div 512) % 4

\* a frame as the protocol means it: capacity = number of messages, no stray
\* bytes, a known source class, a structure message only on its own
WellFormedSend(d) ==
    /\ d.src \in AddressClassEnum
    /\ d.cap = Len(d.msgs)
    /\ d.tail = <<>>
    /\ \A i \in 1 .. Len(d.msgs) : wire_type(d.msgs[i]) = 3 => d.cap = 1

\* line noise changes one byte of the CRC-protected region to one of these
damaged_values(b) == {ToggleBit(b, 0), ToggleBit(b, 7), 6} \ {b}

VARIABLES
    args,        \* EHSArguments: DRYRUN, DUMPFILE
    pc,          \* "idle", "received", "processed"
    sent,        \* what the unit put on the bus
    buffer,      \* the bytes that reach process_packet
    parsed,      \* result of NASAPacket.parse for buffer
    caught,      \* the except clause process_packet ended in
    route,       \* what process_packet did with the parsed packet
    handed,      \* packets passed to MessageProcessor.process_message
    published,   \* MQTT publishes made for buffer
    dumped,      \* lines appended to the dump file for buffer
    raw,         \* result of to_raw for the parsed packet
    reparsed,    \* result of parse for raw
    request,     \* per task: the producer call in progress
    ppc,         \* per task: "idle", "sleeping", "done", "raised"
    chunks,      \* per task: chunks read_request has not sent yet
    transport,   \* byte sequences handed to writer.write, in order
    raised,      \* per task: the exception that ended the call
    now,         \* the event loop's clock, in ms
    wake,        \* per task: when its asyncio.sleep is over
    handed_at,   \* for each entry of transport: the clock at writer.write
    handed_by,   \* for each entry of transport: the task and what it sent
    wire,        \* the bytes in the stream's buffer, in order
    mqtt_config, \* config.MQTT and args.CLEAN_KNOWN_DEVICES of the session
    mpc,         \* MQTTClient: "created", "connected"
    subscriptions, \* the topic filters the broker holds for the client
    known_topics,  \* MQTTClient.known_topics
    retained,    \* the broker's retained known-devices payload
    inflight,    \* messages the broker has sent, not yet in on_message
    out,         \* the publishes of the last MQTTClient call, in order
    last,        \* the last MQTTClient call or controller publish
    published_points, \* names publish_message got since the last birth
    announced,   \* names with a discovery config since the last birth
    added,       \* names refresh_known_devices was called with
    births,      \* 'online' messages handled by on_message
    main,        \* main(): "start", "dryrun", "connecting", "serial",
                 \* "ended", "raised"
    fatal,       \* the exception that ended main
    file,        \* the lines of the dump file
    line_no,     \* how many of them main has read
    link,        \* the port: "Disconnected", "Connecting", "Connected"
    opened,      \* how often the port was opened
    bus,         \* the segments the bus has delivered, by index
    stream,      \* the bytes in the reader not yet read
    tasks,       \* the tasks created and not yet run, oldest first
    log,         \* what each run of process_packet left, in order
    ehs_config,  \* the configuration file as EHSConfig.__init__ loaded it
    validation,  \* what EHSConfig.validate ended with
    enum_point,  \* a point of type ENUM
    enum_raw,    \* the byte a message carries for it
    enum_forward,  \* what determine_value made of the byte
    enum_reverse,  \* what _decode_value made of that label
    finder,      \* messageFinder.serial_read: prev_byte, packet_started,
                 \* data, packet_size
    finder_in,   \* the bytes reader.read(1) has returned
    finder_out,  \* the frames handed to process_packet
    extraction,  \* a message extraction in progress: the arguments of the
                 \* current call, the calls made so far, how it ended
    serialized   \* a NASAMessage and what its to_raw has returned

producer_vars == <<request, ppc, chunks, transport, raised, now, wake,
                   handed_at, handed_by, wire>>

\* the coroutines that use the producer: a poller and a control command
Tasks == {"poll", "control"}

mqtt_vars == <<mqtt_config, mpc, subscriptions, known_topics, retained,
               inflight, out, last, published_points, announced, added,
               births>>

config_vars == <<ehs_config, validation>>

enum_vars == <<enum_point, enum_raw, enum_forward, enum_reverse>>

finder_vars == <<finder, finder_in, finder_out>>

extract_vars == <<extraction>>

to_raw_vars == <<serialized>>

pure_vars == <<finder_vars, extract_vars, to_raw_vars>>

main_vars ==
    <<main, fatal, file, line_no, link, opened, bus, stream, tasks, log>>

run_vars == <<main_vars, config_vars, enum_vars, pure_vars>>

vars == <<args, pc, sent, buffer, parsed, caught, route, handed, published,
          dumped, raw, reparsed, producer_vars, mqtt_vars, run_vars>>

ingress_vars == <<args, pc, sent, buffer, parsed, caught, route, handed,
                  published, dumped, raw, reparsed>>

NoRequest == [op |-> "none", list |-> <<>>, message |-> "",
              value |-> NoneValue, read_request_after |-> FALSE]

NoRaw == [exc |-> None, bytes |-> <<>>]

NoSend == [kind |-> "none", src |-> 0, cap |-> 0, msgs |-> <<>>,
           tail |-> <<>>, at |-> 0, to |-> 0]

\* no message: the broker holds no retained payload
NoPayload == <<"<none>">>

NoCall == [op |-> "none", name |-> "", known |-> FALSE, payload |-> <<>>]

\* MQTTClient.__init__ for a session with one of `configs`, and a broker
\* that holds one of `leftovers` from an earlier session
InitMQTTClient(configs, leftovers) ==
    /\ mqtt_config \in configs
    /\ mpc = "created"
    /\ subscriptions = {}
    /\ known_topics = <<>>
    /\ retained \in leftovers
    /\ inflight = <<>>
    /\ out = <<>>
    /\ last = NoCall
    /\ published_points = {}
    /\ announced = {}
    /\ added = {}
    /\ births = 0

\* the example configuration: discovery below "homeassistant"
DefaultMQTT == [topicPrefix |-> "ehsSentinel",
                homeAssistantAutoDiscoverTopic |-> "homeassistant",
                useCamelCaseTopicNames |-> TRUE,
                CLEAN_KNOWN_DEVICES |-> FALSE]

\* main before its first step, with one of `files` as the dump file
InitRun(files) ==
    /\ main = "start"
    /\ fatal = None
    /\ file \in files
    /\ line_no = 0
    /\ link = "Disconnected"
    /\ opened = 0
    /\ bus = <<>>
    /\ stream = <<>>
    /\ tasks = <<>>
    /\ log = <<>>

\* EHSConfig() has loaded and validated one of `configs`
Constructed(configs) ==
    /\ ehs_config \in configs
    /\ validation = validate(ehs_config)

\* messageFinder.serial_read before its loop (prev_byte is the int 0x00,
\* equal to no bytes object)
InitFinder ==
    /\ finder = [prev_byte |-> <<>>, packet_started |-> FALSE, data |-> <<>>,
                 packet_size |-> 0]
    /\ finder_in = <<>>
    /\ finder_out = <<>>

\* no extraction has been asked for
NoExtraction ==
    [fn |-> "None", capacity |-> 0, region |-> <<>>, depth |-> 0,
     msg_rest |-> <<>>, return_list |-> <<>>, calls |-> <<>>,
     state |-> "idle", exc |-> "None", why |-> "None"]

\* to_raw has not been called on this message
NotSerialized(message) ==
    [message |-> message, called |-> FALSE, returned |-> "None",
     bytes |-> <<>>]

InitPure ==
    /\ InitFinder
    /\ extraction = NoExtraction
    /\ serialized = NotSerialized(NASAMessage(0, 0, <<>>))

Pending == [exc |-> "pending", value |-> None]

NotEncoded == [exc |-> "pending", value |-> NoneValue]

\* a message for one of `points` with one of `raws` waits to be decoded
InitEnum(points, raws) ==
    /\ enum_point \in points
    /\ enum_raw \in raws
    /\ enum_forward = Pending
    /\ enum_reverse = NotEncoded

InitProcess ==
    /\ args \in {[DRYRUN |-> TRUE, DUMPFILE |-> TRUE],
                 [DRYRUN |-> FALSE, DUMPFILE |-> TRUE],
                 [DRYRUN |-> FALSE, DUMPFILE |-> FALSE]}
    /\ pc = "idle"
    /\ sent = NoSend
    /\ buffer = <<>>
    /\ parsed = Raise(None, None)
    /\ caught = None
    /\ route = None
    /\ handed = <<>>
    /\ published = <<>>
    /\ dumped = <<>>
    /\ raw = NoRaw
    /\ reparsed = Raise(None, None)
    /\ request = [t \in Tasks |-> NoRequest]
    /\ ppc = [t \in Tasks |-> "idle"]
    /\ chunks = [t \in Tasks |-> <<>>]
    /\ transport = <<>>
    /\ raised = [t \in Tasks |-> None]
    /\ now = 0
    /\ wake = [t \in Tasks |-> 0]
    /\ handed_at = <<>>
    /\ handed_by = <<>>
    /\ wire = <<>>

Init ==
    /\ InitProcess
    /\ InitMQTTClient({DefaultMQTT}, {NoPayload})
    /\ InitRun({<<>>})
    /\ Constructed({DefaultConfig})
    /\ InitEnum({NASA_REPO.DHW_POWER}, {0})
    /\ InitPure

\* a frame reaches the caller of process_packet (main's dump line loop,
\* process_buffer's task)
Arrive(d, frame) ==
    /\ pc' = "received"
    /\ sent' = d
    /\ buffer' = frame
    /\ parsed' = Raise(None, None)
    /\ caught' = None
    /\ route' = None
    /\ handed' = <<>>
    /\ published' = <<>>
    /\ dumped' = <<>>
    /\ raw' = NoRaw
    /\ reparsed' = Raise(None, None)
    /\ UNCHANGED <<args, producer_vars, mqtt_vars, run_vars>>

receive_built ==
    /\ pc = "idle"
    /\ \E d \in Sendable :
        Arrive([kind |-> "built", src |-> d.src, cap |-> d.cap,
                msgs |-> d.msgs, tail |-> d.tail, at |-> 0, to |-> 0],
               frame_of(wire_body(d)))

receive_damaged ==
    /\ pc = "idle"
    /\ \E d \in Sendable :
        /\ WellFormedSend(d)
        /\ d.src \in {Outdoor, Indoor}
        /\ LET frame == frame_of(wire_body(d))
           IN  \E i \in 4 .. Len(frame) - 3 :
                 \E v \in damaged_values(frame[i]) :
                   Arrive([kind |-> "damaged", src |-> d.src, cap |-> d.cap,
                           msgs |-> d.msgs, tail |-> d.tail,
                           at |-> i - 1, to |-> v],
                          [frame EXCEPT ![i] = v])

\* a frame of one on/off message to some destination, of some data type
receive_addressed ==
    /\ pc = "idle"
    /\ \E src \in {Outdoor, Indoor, WiFiKit, JIGTester} :
        \E dst \in {BroadcastSelfLayer, BroadcastSetLayer, Indoor} :
         \E data_type \in {DataType_Read, DataType_Notification} :
           Arrive([NoSend EXCEPT !.kind = "addressed", !.src = src,
                                 !.cap = 1, !.msgs = <<1>>],
                  frame_of(<<src, 0, 0, dst, 0, 255, 192,
                             PacketType_Normal * 16 + data_type, 139, 1>>
                           \o wire_message(1)))

receive_recorded ==
    /\ pc = "idle"
    /\ \E frame \in {S1, S2} :
        Arrive([NoSend EXCEPT !.kind = "recorded"], frame)

\* the except clauses of process_packet, in order
caught_by(exc) ==
    IF exc \in {"ValueError", "SkipInvalidPacketException",
                "MessageWarningException"}
    THEN exc ELSE "Exception"

\* a filter that forgets the destination and the data type
route_of_any_wifikit(nasa_packet) ==
    IF nasa_packet.packet_source_address_class \in {Outdoor, Indoor}
    THEN "process_message"
    ELSE IF nasa_packet.packet_source_address_class = WiFiKit
    THEN "pass"
    ELSE "logged"

\* the branches of process_packet after parse: the message processor, the
\* silent pass, or the "Message not From Indoor or Outdoor" log lines
route_of(nasa_packet) ==
    IF nasa_packet.packet_source_address_class \in {Outdoor, Indoor}
    THEN "process_message"
    ELSE IF /\ nasa_packet.packet_source_address_class = WiFiKit
            /\ nasa_packet.packet_dest_address_class = BroadcastSelfLayer
            /\ nasa_packet.packet_data_type = DataType_Notification
    THEN "pass"
    ELSE "logged"

\* the buffer parsed whether or not it is dumped
process_packet_parse_always(a, buf) ==
    LET nasa_packet == parse(buf)
    IN  [dumped |-> IF a.DUMPFILE /\ ~a.DRYRUN THEN <<buf>> ELSE <<>>,
         parsed |-> nasa_packet,
         caught |-> IF nasa_packet.exc # None
                    THEN caught_by(nasa_packet.exc) ELSE None,
         route |-> IF nasa_packet.exc # None THEN None
                   ELSE route_of(nasa_packet.pkt),
         handed |-> IF nasa_packet.exc = None
                       /\ route_of(nasa_packet.pkt) = "process_message"
                    THEN <<nasa_packet.pkt>> ELSE <<>>,
         published |-> <<>>]

\* process_packet(buffer, args, config): what it leaves behind
process_packet_result(a, buf) ==
    IF a.DUMPFILE /\ ~a.DRYRUN
    THEN [dumped |-> <<buf>>, parsed |-> Raise(None, None), caught |-> None,
          route |-> None, handed |-> <<>>, published |-> <<>>]
    ELSE
      LET nasa_packet == parse(buf)
          processed ==
              process_message([kind |-> "NASAPacket",
                               packet |-> nasa_packet.pkt,
                               bytes |-> <<>>])
      IN  IF nasa_packet.exc # None
          THEN [dumped |-> <<>>, parsed |-> nasa_packet,
                caught |-> caught_by(nasa_packet.exc), route |-> None,
                handed |-> <<>>, published |-> <<>>]
          ELSE IF route_of(nasa_packet.pkt) = "process_message"
          THEN [dumped |-> <<>>, parsed |-> nasa_packet,
                caught |-> IF processed.exc = None THEN None
                           ELSE caught_by(processed.exc),
                route |-> "process_message",
                handed |-> <<nasa_packet.pkt>>,
                published |-> processed.published]
          ELSE [dumped |-> <<>>, parsed |-> nasa_packet, caught |-> None,
                route |-> route_of(nasa_packet.pkt), handed |-> <<>>,
                published |-> <<>>]

process_packet ==
    /\ pc = "received"
    /\ pc' = "processed"
    /\ LET result == process_packet_result(args, buffer)
       IN  /\ dumped' = result.dumped
           /\ parsed' = result.parsed
           /\ caught' = result.caught
           /\ route' = result.route
           /\ handed' = result.handed
           /\ published' = result.published
    /\ UNCHANGED <<args, sent, buffer, raw, reparsed, producer_vars,
                   mqtt_vars, run_vars>>

\* the parsed packet is serialized again and the bytes are parsed
serialize ==
    /\ pc = "processed"
    /\ parsed.exc = None
    /\ parsed.pkt.unset = {}
    /\ pc' = "serialized"
    /\ raw' = to_raw(parsed.pkt)
    /\ reparsed' = IF to_raw(parsed.pkt).exc = None
                   THEN parse(to_raw(parsed.pkt).bytes)
                   ELSE Raise(None, None)
    /\ UNCHANGED <<args, sent, buffer, parsed, caught, route, handed,
                   published, dumped, producer_vars, mqtt_vars, run_vars>>

\* the caller loops for the next frame; what was observed for the last
\* frame is forgotten
next_frame ==
    /\ pc \in {"processed", "serialized"}
    /\ pc' = "idle"
    /\ sent' = NoSend
    /\ buffer' = <<>>
    /\ parsed' = Raise(None, None)
    /\ caught' = None
    /\ route' = None
    /\ handed' = <<>>
    /\ published' = <<>>
    /\ dumped' = <<>>
    /\ raw' = NoRaw
    /\ reparsed' = Raise(None, None)
    /\ UNCHANGED <<args, producer_vars, mqtt_vars, run_vars>>

Next ==
    \/ next_frame
    \/ serialize
    \/ receive_built
    \/ receive_damaged
    \/ receive_recorded
    \/ receive_addressed
    \/ process_packet

Spec == Init /\ [][Next]_vars
(***************************************************************************)
(* The producer: read_request and write_request, one action per stretch    *)
(* between two awaits.                                                     *)
(***************************************************************************)
MaxPoints == 12

MaxTicks == 4

\* asyncio.sleep(0.5) before each chunk and asyncio.sleep(1) after a write
SleepChunk == 500

SleepAfterWrite == 1000

\* point names a caller asks for; the last is in no repository
PointNames == <<"COMP_TEMP", "DHW_POWER", "LVAR_IN_TOTAL", "NO_SUCH_POINT">>

\* the lists of up to MaxPoints names handed to read_request
PointLists ==
    {[i \in 1 .. n |-> PointNames[((i + r) % Len(PointNames)) + 1]] :
       n \in 0 .. MaxPoints, r \in 0 .. Len(PointNames) - 1}
    \cup {[i \in 1 .. n |-> PointNames[((i + r) % 3) + 1]] :
            n \in 0 .. MaxPoints, r \in 0 .. 2}

WriteValues ==
    {StrValue(t) : t \in {"ON", "OFF", "21", "5", "-3", "21.5", "abc"}}
    \cup {IntValue(1)}

\* writer.write(final_packet): the whole packet goes into the stream's
\* buffer in one call, stamped here with the clock and the sender
hand_over(t, what, written) ==
    /\ transport' = transport \o written
    /\ handed_at' = handed_at \o [i \in 1 .. Len(written) |-> now]
    /\ handed_by' = handed_by
                      \o [i \in 1 .. Len(written) |-> [task |-> t, op |-> what]]
    /\ wire' = wire \o Flatten(written)

\* read_request up to its first await
read_request(t) ==
    /\ ppc[t] = "idle"
    /\ now + SleepChunk <= MaxTicks * SleepChunk
    /\ \E list_of_messages \in PointLists :
        /\ request' = [request EXCEPT ![t] =
                         [NoRequest EXCEPT !.op = "read",
                                           !.list = list_of_messages]]
        /\ chunks' = [chunks EXCEPT ![t] = chunks_of(list_of_messages)]
        /\ ppc' = [ppc EXCEPT ![t] =
                     IF Len(chunks_of(list_of_messages)) = 0
                     THEN "done" ELSE "sleeping"]
    /\ wake' = [wake EXCEPT ![t] = now + SleepChunk]
    /\ UNCHANGED <<transport, handed_at, handed_by, wire, raised, now,
                   ingress_vars, mqtt_vars, run_vars>>

\* asyncio.sleep(0.5) is over: the chunk is built and written
read_request_chunk(t) ==
    /\ ppc[t] = "sleeping"
    /\ now >= wake[t]
    /\ LET sending == read_chunk(Head(chunks[t]))
       IN  IF sending.exc # None
           THEN /\ ppc' = [ppc EXCEPT ![t] = "raised"]
                /\ raised' = [raised EXCEPT ![t] = sending.exc]
                /\ UNCHANGED <<chunks, transport, handed_at, handed_by, wire,
                               wake>>
           ELSE /\ hand_over(t, "read", sending.written)
                /\ chunks' = [chunks EXCEPT ![t] = Tail(chunks[t])]
                /\ ppc' = [ppc EXCEPT ![t] =
                             IF Len(chunks[t]) = 1 THEN "done" ELSE "sleeping"]
                /\ wake' = [wake EXCEPT ![t] = now + SleepChunk]
                /\ UNCHANGED raised
    /\ UNCHANGED <<request, now, ingress_vars, mqtt_vars, run_vars>>

\* write_request up to asyncio.sleep(1); read_request([message]) follows it
\* whatever read_request_after is, and sleeps again before its one chunk
write_request(t) ==
    /\ ppc[t] = "idle"
    /\ now + SleepAfterWrite + SleepChunk <= MaxTicks * SleepChunk
    /\ \E message \in {PointNames[i] : i \in 1 .. Len(PointNames)} :
        \E value \in WriteValues :
         \E read_request_after \in BOOLEAN :
          LET sending == write_packet(message, value)
          IN  /\ request' = [request EXCEPT ![t] =
                               [NoRequest EXCEPT
                                  !.op = "write",
                                  !.message = message,
                                  !.value = value,
                                  !.read_request_after = read_request_after]]
              /\ IF sending.exc # None
                 THEN /\ ppc' = [ppc EXCEPT ![t] = "raised"]
                      /\ raised' = [raised EXCEPT ![t] = sending.exc]
                      /\ hand_over(t, "write", sending.written)
                      /\ UNCHANGED <<chunks, wake>>
                 ELSE /\ hand_over(t, "write", sending.written)
                      /\ chunks' = [chunks EXCEPT ![t] = <<<<message>>>>]
                      /\ ppc' = [ppc EXCEPT ![t] = "sleeping"]
                      /\ wake' = [wake EXCEPT ![t] =
                                    now + SleepAfterWrite + SleepChunk]
                      /\ UNCHANGED raised
    /\ UNCHANGED <<now, ingress_vars, mqtt_vars, run_vars>>

\* the caller's task is over; once no call is in progress the next calls
\* start from a quiet producer
request_finished(t) ==
    /\ ppc[t] \in {"done", "raised"}
    /\ ppc' = [ppc EXCEPT ![t] = "idle"]
    /\ request' = [request EXCEPT ![t] = NoRequest]
    /\ chunks' = [chunks EXCEPT ![t] = <<>>]
    /\ raised' = [raised EXCEPT ![t] = None]
    /\ wake' = [wake EXCEPT ![t] = 0]
    /\ IF \A u \in Tasks \ {t} : ppc[u] = "idle"
       THEN transport' = <<>> /\ handed_at' = <<>> /\ handed_by' = <<>>
            /\ wire' = <<>> /\ now' = 0
       ELSE UNCHANGED <<transport, handed_at, handed_by, wire, now>>
    /\ UNCHANGED <<ingress_vars, mqtt_vars, run_vars>>

\* time passes while some coroutine sleeps
tick ==
    /\ \E t \in Tasks : ppc[t] = "sleeping"
    /\ now < MaxTicks * SleepChunk
    /\ now' = now + SleepChunk
    /\ UNCHANGED <<request, ppc, chunks, transport, raised, wake, handed_at,
                   handed_by, wire, ingress_vars, mqtt_vars, run_vars>>

NextProducer ==
    \/ \E t \in Tasks : read_request(t)
    \/ \E t \in Tasks : read_request_chunk(t)
    \/ write_request("control")
    \/ \E t \in Tasks : request_finished(t)
    \/ tick

\* the producer reads none of the arguments: one set of them is enough
InitProducer == Init /\ ~args.DUMPFILE

SpecProducer == InitProducer /\ [][NextProducer]_vars

(***************************************************************************)
(* MQTTClient.py.  A topic is the sequence of its levels, a payload the    *)
(* sequence of its tokens: a name, a label, "," or " ".                    *)
(***************************************************************************)
DEVICE_ID == "samsung_ehssentinel"

known_devices_topic == <<"known", "devices">>

\* the words of the names and labels, for str.lower and str.capitalize
Words == {"COMP", "TEMP", "DHW", "POWER", "LVAR", "IN", "TOTAL", "ON", "OFF"}

lower_word(w) ==
    CASE w = "COMP" -> "comp" [] w = "TEMP" -> "temp" [] w = "DHW" -> "dhw"
      [] w = "POWER" -> "power" [] w = "LVAR" -> "lvar" [] w = "IN" -> "in"
      [] w = "TOTAL" -> "total" [] w = "ON" -> "on" [] w = "OFF" -> "off"

capitalize_word(w) ==
    CASE w = "COMP" -> "Comp" [] w = "TEMP" -> "Temp" [] w = "DHW" -> "Dhw"
      [] w = "POWER" -> "Power" [] w = "LVAR" -> "Lvar" [] w = "IN" -> "In"
      [] w = "TOTAL" -> "Total" [] w = "ON" -> "On" [] w = "OFF" -> "Off"

\* name.split("_")
name_parts(name) ==
    CASE name = "COMP_TEMP" -> <<"COMP", "TEMP">>
      [] name = "DHW_POWER" -> <<"DHW", "POWER">>
      [] name = "LVAR_IN_TOTAL" -> <<"LVAR", "IN", "TOTAL">>

\* "".join of strings
RECURSIVE concat(_)
concat(strings) ==
    IF strings = <<>> THEN "" ELSE strings[1] \o concat(Tail(strings))

\* sep.join(strings), as one string
RECURSIVE join_text(_, _)
join_text(sep, strings) ==
    IF Len(strings) <= 1 THEN concat(strings)
    ELSE strings[1] \o sep \o join_text(sep, Tail(strings))

\* name.lower()
lower(name) ==
    join_text("_", [i \in 1 .. Len(name_parts(name)) |->
                        lower_word(name_parts(name)[i])])

\* MQTTClient._normalize_name, and the lower() of its result
normalized_parts(useCamelCaseTopicNames, name) ==
    LET parts == name_parts(name)
        stripped == IF /\ Len(parts) > 1
                       /\ parts[1] \in {"ENUM", "LVAR", "NASA", "VAR"}
                    THEN Tail(parts) ELSE parts
    IN  IF useCamelCaseTopicNames THEN stripped ELSE parts

_normalize_name(useCamelCaseTopicNames, name) ==
    LET parts == normalized_parts(useCamelCaseTopicNames, name)
    IN  IF useCamelCaseTopicNames
        THEN concat([i \in 1 .. Len(parts) |->
                        IF i = 1 THEN lower_word(parts[i])
                        ELSE capitalize_word(parts[i])])
        ELSE name

normalized_lower(useCamelCaseTopicNames, name) ==
    LET parts == normalized_parts(useCamelCaseTopicNames, name)
    IN  IF useCamelCaseTopicNames
        THEN concat([i \in 1 .. Len(parts) |-> lower_word(parts[i])])
        ELSE lower(name)

\* MQTTClient._get_sensor_type
_get_sensor_type(name) ==
    LET enum == NASA_REPO[name].enum
    IN  IF /\ Len(enum) > 0
           /\ \A i \in 1 .. Len(enum) :
                lower_word(enum[i].label) \in {"on", "off"}
        THEN "binary_sensor" ELSE "sensor"

\* ",".join(self.known_topics)
RECURSIVE join(_)
join(list) ==
    IF Len(list) <= 1 THEN list
    ELSE <<list[1], ",">> \o join(Tail(list))

\* payload.split(",")
RECURSIVE split(_)
split(payload) ==
    IF \E i \in 1 .. Len(payload) : payload[i] = ","
    THEN LET i == CHOOSE k \in 1 .. Len(payload) :
                      /\ payload[k] = ","
                      /\ \A j \in 1 .. k - 1 : payload[j] # ","
         IN  <<SubSeq(payload, 1, i - 1)>>
               \o split(SubSeq(payload, i + 1, Len(payload)))
    ELSE <<payload>>

\* x.strip()
RECURSIVE strip(_)
strip(part) ==
    IF part # <<>> /\ part[1] = " " THEN strip(Tail(part))
    ELSE IF part # <<>> /\ part[Len(part)] = " "
    THEN strip(SubSeq(part, 1, Len(part) - 1))
    ELSE part

\* a list without the strip and the filter
payload_devices_unstripped(payload) ==
    [i \in 1 .. Len(split(payload)) |-> concat(split(payload)[i])]

\* list(filter(None, [x.strip() for x in payload.decode().split(",")]))
payload_devices(payload) ==
    SelectSeq([i \in 1 .. Len(split(payload)) |->
                   concat(strip(split(payload)[i]))],
              LAMBDA x : x # "")

\* f"{self.topicPrefix.replace('/', '')}/{self.known_devices_topic}"; the
\* prefixes of the model have no slash
KnownDevicesTopic(config) == <<config.topicPrefix>> \o known_devices_topic

\* f"{self.homeAssistantAutoDiscoverTopic}/status"
StatusTopic(config) == <<config.homeAssistantAutoDiscoverTopic, "status">>

\* a state topic made from the name as unique_id is
state_topic_unique_id(config, name) ==
    IF Len(config.homeAssistantAutoDiscoverTopic) > 0
    THEN <<config.homeAssistantAutoDiscoverTopic, _get_sensor_type(name),
           DEVICE_ID \o "_" \o lower(name), "state">>
    ELSE <<config.topicPrefix,
           _normalize_name(config.useCamelCaseTopicNames, name)>>

\* the state topic of publish_message
state_topic(config, name) ==
    IF Len(config.homeAssistantAutoDiscoverTopic) > 0
    THEN <<config.homeAssistantAutoDiscoverTopic, _get_sensor_type(name),
           DEVICE_ID \o "_"
             \o normalized_lower(config.useCamelCaseTopicNames, name),
           "state">>
    ELSE <<config.topicPrefix,
           _normalize_name(config.useCamelCaseTopicNames, name)>>

\* the topic and the entity of auto_discover_hass
config_topic(config, name) ==
    <<config.homeAssistantAutoDiscoverTopic, _get_sensor_type(name),
      DEVICE_ID \o "_" \o lower(name), "config">>

entity(config, name) ==
    <<"name", _normalize_name(config.useCamelCaseTopicNames, name),
      "object_id",
      DEVICE_ID \o "_"
        \o normalized_lower(config.useCamelCaseTopicNames, name),
      "unique_id", DEVICE_ID \o "_" \o lower(name),
      "platform", _get_sensor_type(name),
      "state_topic",
      join_text("/", <<config.homeAssistantAutoDiscoverTopic,
                       _get_sensor_type(name),
                       DEVICE_ID \o "_"
                         \o normalized_lower(config.useCamelCaseTopicNames,
                                             name),
                       "state">>)>>

Publish(topic, payload, qos, retain) ==
    [topic |-> topic, payload |-> payload, qos |-> qos, retain |-> retain]

auto_discover_hass(config, name) ==
    Publish(config_topic(config, name), entity(config, name), 2, TRUE)

\* the device-level config of clear_hass: every point with its platform
clear_hass(config) ==
    Publish(<<config.homeAssistantAutoDiscoverTopic, "device", DEVICE_ID,
              "config">>,
            <<"components",
              _normalize_name(config.useCamelCaseTopicNames, "COMP_TEMP"),
              _get_sensor_type("COMP_TEMP"),
              _normalize_name(config.useCamelCaseTopicNames, "DHW_POWER"),
              _get_sensor_type("DHW_POWER"),
              _normalize_name(config.useCamelCaseTopicNames, "LVAR_IN_TOTAL"),
              _get_sensor_type("LVAR_IN_TOTAL")>>,
            2, TRUE)

\* self._publish(known-devices topic, " ", retain=True)
clear_known_devices(config) ==
    Publish(KnownDevicesTopic(config), <<" ">>, 0, TRUE)

\* the name compared with the newest entry only
first_sight_last(known, name) == known = <<>> \/ known[Len(known)] # name

\* the point is announced whenever publish_message is called
first_sight_always(known, name) == TRUE

\* name not in self.known_topics
first_sight(known, name) == \A i \in 1 .. Len(known) : known[i] # name

\* the values the processor publishes, with the text that goes on the wire
\* (a float with a fractional part is rounded to two decimals)
PublishValues ==
    [COMP_TEMP |-> {<<FloatValue("21.5"), "21.5">>,
                    <<FloatValue("21.456"), "21.46">>},
     DHW_POWER |-> {<<StrValue("ON"), "ON">>},
     LVAR_IN_TOTAL |-> {<<IntValue(21), "21">>}]

\* "sub in topic" for level sequences
contains(topic, sub) ==
    \E i \in 0 .. Len(topic) - Len(sub) :
        SubSeq(topic, i + 1, i + Len(sub)) = sub

\* the broker: a topic matches a filter, "+" stands for one level
matches(filter, topic) ==
    /\ Len(filter) = Len(topic)
    /\ \A i \in 1 .. Len(filter) : filter[i] \in {"+", topic[i]}

Message(topic, payload, retain) ==
    [topic |-> topic, payload |-> payload, retain |-> retain]

\* the copies of the publishes the broker sends to the subscriber
RECURSIVE forwarded(_, _)
forwarded(filters, publishes) ==
    IF publishes = <<>> THEN <<>>
    ELSE (IF \E f \in filters : matches(f, publishes[1].topic)
          THEN <<Message(publishes[1].topic, publishes[1].payload, FALSE)>>
          ELSE <<>>) \o forwarded(filters, Tail(publishes))

\* the retained known-devices payload after the publishes
RECURSIVE retained_after(_, _, _)
retained_after(payload, topic, publishes) ==
    IF publishes = <<>> THEN payload
    ELSE retained_after(IF publishes[1].retain /\ publishes[1].topic = topic
                        THEN publishes[1].payload ELSE payload,
                        topic, Tail(publishes))

MaxInflight == 2

MaxBirths == 1

\* the sessions of the model: discovery on or off, both name styles, with
\* and without --clean-known-devices
MQTTConfigs ==
    {[topicPrefix |-> "ehsSentinel", homeAssistantAutoDiscoverTopic |-> d,
      useCamelCaseTopicNames |-> c, CLEAN_KNOWN_DEVICES |-> k] :
        d \in {"", "homeassistant"}, c \in BOOLEAN, k \in BOOLEAN}

\* what an earlier session left at the broker: nothing, or one point
Leftovers == {NoPayload, <<"COMP_TEMP">>}

\* the broker takes the publishes of one call
broker(publishes) ==
    /\ out' = publishes
    /\ retained' = retained_after(retained, KnownDevicesTopic(mqtt_config),
                                  publishes)

\* connect, with on_connect (rc = 0) and subscribe_known_topics
connect ==
    /\ mpc = "created"
    /\ mpc' = "connected"
    /\ LET filters == IF Len(mqtt_config.homeAssistantAutoDiscoverTopic) > 0
                      THEN {KnownDevicesTopic(mqtt_config),
                            StatusTopic(mqtt_config)}
                      ELSE {}
           publishes == IF mqtt_config.CLEAN_KNOWN_DEVICES
                        THEN <<clear_known_devices(mqtt_config)>>
                        ELSE <<>>
       IN  /\ subscriptions' = filters
           /\ inflight' =
                (IF /\ KnownDevicesTopic(mqtt_config) \in filters
                    /\ retained # NoPayload
                 THEN <<Message(KnownDevicesTopic(mqtt_config), retained,
                                TRUE)>>
                 ELSE <<>>) \o forwarded(filters, publishes)
           /\ broker(publishes)
    /\ last' = [NoCall EXCEPT !.op = "connect"]
    /\ UNCHANGED <<mqtt_config, known_topics, published_points, announced,
                   added, births, ingress_vars, producer_vars, run_vars>>

\* the state published before the point is announced
publish_calls_state_first(config, first, devices, name, text) ==
    <<Publish(state_topic(config, name), <<text>>, 2, FALSE)>>
    \o (IF first
        THEN <<auto_discover_hass(config, name),
               Publish(KnownDevicesTopic(config), join(devices), 0, TRUE)>>
        ELSE <<>>)

\* the calls of self._publish one publish_message makes, in order: from
\* auto_discover_hass and refresh_known_devices at a first sight, then the
\* state
publish_calls(config, first, devices, name, text) ==
    (IF first
     THEN <<auto_discover_hass(config, name),
            Publish(KnownDevicesTopic(config), join(devices), 0, TRUE)>>
     ELSE <<>>)
    \o <<Publish(state_topic(config, name), <<text>>, 2, FALSE)>>

\* MQTTClient.publish_message(name, value)
publish_message ==
    /\ mpc = "connected"
    /\ \E name \in DOMAIN NASA_REPO : \E value \in PublishValues[name] :
        LET discovery ==
                Len(mqtt_config.homeAssistantAutoDiscoverTopic) > 0
            first == discovery /\ first_sight(known_topics, name)
            devices == IF first THEN Append(known_topics, name)
                       ELSE known_topics
            publishes ==
               publish_calls(mqtt_config, first, devices, name, value[2])
        IN  /\ Len(inflight) + Len(forwarded(subscriptions, publishes))
                 <= MaxInflight
            /\ known_topics' = devices
            /\ inflight' = inflight \o forwarded(subscriptions, publishes)
            /\ broker(publishes)
            /\ last' = [op |-> "publish_message", name |-> name,
                        known |-> \E i \in 1 .. Len(known_topics) :
                                      known_topics[i] = name,
                        payload |-> <<value[2]>>]
            /\ published_points' = published_points \cup {name}
            /\ announced' = IF first THEN announced \cup {name}
                            ELSE announced
            /\ added' = IF first THEN added \cup {name} ELSE added
    /\ UNCHANGED <<mqtt_config, mpc, subscriptions, births, ingress_vars,
                   producer_vars, run_vars>>

\* the broker's next message reaches MQTTClient.on_message
on_message ==
    /\ inflight # <<>>
    /\ LET message == Head(inflight)
           online == /\ StatusTopic(mqtt_config) = message.topic
                     /\ message.payload = <<"online">>
           publishes == IF online
                        THEN <<clear_known_devices(mqtt_config),
                               clear_hass(mqtt_config)>>
                        ELSE <<>>
       IN  /\ known_topics' =
                IF contains(message.topic, known_devices_topic)
                THEN payload_devices(message.payload)
                ELSE known_topics
           /\ inflight' = Tail(inflight)
                            \o forwarded(subscriptions, publishes)
           /\ broker(publishes)
           /\ last' = [op |-> "on_message", name |-> "", known |-> FALSE,
                       payload |-> message.payload]
           /\ births' = IF online THEN births + 1 ELSE births
           /\ published_points' = IF online THEN {} ELSE published_points
           /\ announced' = IF online THEN {} ELSE announced
    /\ UNCHANGED <<mqtt_config, mpc, subscriptions, added, ingress_vars,
                   producer_vars, run_vars>>

\* the onlines the broker has sent that on_message has not seen yet
onlines_in_flight ==
    Cardinality({i \in 1 .. Len(inflight) :
                    inflight[i].payload = <<"online">>})

\* the controller publishes its birth or its last will on the status topic
controller_status ==
    /\ mpc = "connected"
    /\ \E text \in {"online", "offline"} :
        LET publishes == <<Publish(<<"homeassistant", "status">>, <<text>>,
                                   0, FALSE)>>
        IN  /\ text = "online" => births + onlines_in_flight < MaxBirths
            /\ Len(inflight) + Len(forwarded(subscriptions, publishes))
                 <= MaxInflight
            /\ forwarded(subscriptions, publishes) # <<>>
            /\ inflight' = inflight \o forwarded(subscriptions, publishes)
            /\ last' = [op |-> "status", name |-> "", known |-> FALSE,
                        payload |-> <<text>>]
            /\ out' = <<>>
    /\ UNCHANGED <<mqtt_config, mpc, subscriptions, known_topics, retained,
                   published_points, announced, added, births,
                   ingress_vars, producer_vars, run_vars>>

\* the new values the controller sends: a point and the text
Commands == {<<"DHW_POWER", "ON">>, <<"COMP_TEMP", "21">>}

\* the controller publishes a new value on {prefix}/entity/{point}/set
controller_command ==
    /\ mpc = "connected"
    /\ \E command \in Commands :
        LET name == command[1]
            text == command[2]
            publishes == <<Publish(<<mqtt_config.topicPrefix, "entity",
                                     name, "set">>, <<text>>, 0, FALSE)>>
        IN  /\ Len(inflight) + Len(forwarded(subscriptions, publishes))
                 <= MaxInflight
            /\ inflight' = inflight \o forwarded(subscriptions, publishes)
            /\ last' = [op |-> "command", name |-> name, known |-> FALSE,
                        payload |-> <<text>>]
            /\ out' = <<>>
    /\ UNCHANGED <<mqtt_config, mpc, subscriptions, known_topics, retained,
                   published_points, announced, added, births,
                   ingress_vars, producer_vars, run_vars>>

NextMQTT ==
    \/ connect
    \/ publish_message
    \/ on_message
    \/ controller_status
    \/ controller_command

\* the adapter reads none of the arguments but --clean-known-devices
InitMQTT ==
    /\ InitProcess
    /\ ~args.DUMPFILE
    /\ InitMQTTClient(MQTTConfigs, Leftovers)
    /\ InitRun({<<>>})
    /\ Constructed({DefaultConfig})
    /\ InitEnum({NASA_REPO.DHW_POWER}, {0})
    /\ InitPure

SpecMQTT == InitMQTT /\ [][NextMQTT]_vars

(***************************************************************************)
(* startEHSSentinel.py: main, the dump file loop, serial_connection,       *)
(* serial_read, process_buffer and the tasks they create.                  *)
(***************************************************************************)
\* a valid frame from an indoor unit whose payload holds the byte 0x34
InnerEnd ==
    frame_of(wire_body([src |-> Indoor, cap |-> 1, msgs |-> <<3>>,
                        tail |-> <<>>]))

\* a valid frame from an indoor unit with two points of the repository
TwoPoints ==
    frame_of(wire_body([src |-> Indoor, cap |-> 2, msgs |-> <<1, 2>>,
                        tail |-> <<>>]))

\* a valid frame from the outdoor unit with the return temperature 30.0
\* (0x82DF), the supply temperature 35.0 (0x82E0) and the flow 18.0 (0x42E9)
HeatInputs ==
    frame_of(<<Outdoor, 0, 0, BroadcastSelfLayer, 0, 255, 192, 20, 139, 3,
               130, 223, 1, 44, 130, 224, 1, 94, 66, 233, 0, 180>>)

\* the recorded frame with a wrong last byte
BadEnd == [S1 EXCEPT ![Len(S1)] = 0]

\* what the bus delivers in one piece: frames, and noise that ends in 0x34
Segments ==
    <<S1, S2, InnerEnd, BadEnd, TwoPoints, HeatInputs, <<7, 52>>, <<50, 7>>>>

\* the segments that are noise: with 0x34, and with 0x32
Noise == {<<7, 52>>, <<50, 7>>}

\* the well-formed frames among the segments that hold 0x34 only at the end
CleanFrames == {S1, S2, TwoPoints, HeatInputs}

MaxSegments == 3

MaxLines == 3

\* a line of the dump file:
\*   "json"   [50, 0, 22, ...]
\*   "hex"    ['0x32', '0x0', '0x16', ...]
\*   "bytes"  b'2\x00\x16...', as f"{buffer}" writes a bytes object
\*   "blank"  an empty line
Lines ==
    {[format |-> "json", frame |-> S1], [format |-> "hex", frame |-> S1],
     [format |-> "json", frame |-> S2],
     [format |-> "json", frame |-> InnerEnd],
     [format |-> "json", frame |-> TwoPoints],
     [format |-> "bytes", frame |-> S1], [format |-> "blank", frame |-> <<>>]}

DumpFiles == SeqsUpTo(Lines, MaxLines)

\* json.loads(line.strip()), and in its except clause int(value, 16) for
\* the parts of the line
read_line(line) ==
    IF line.format \in {"json", "hex"}
    THEN [exc |-> None, frame |-> line.frame]
    ELSE [exc |-> "ValueError", frame |-> <<>>]

\* what is kept of one run of process_packet
outcome(buf, result) ==
    [buffer |-> buf, exc |-> result.parsed.exc, caught |-> result.caught,
     route |-> result.route, published |-> result.published,
     dumped |-> result.dumped]

\* the index of the first b in bytes; 0 if there is none
first_index(bytes, b) ==
    IF \E i \in 1 .. Len(bytes) : bytes[i] = b
    THEN CHOOSE i \in 1 .. Len(bytes) :
            /\ bytes[i] = b
            /\ \A j \in 1 .. i - 1 : bytes[j] # b
    ELSE 0

\* process_buffer: the buffers it creates a process_packet task for
process_buffer_tasks(data) ==
    LET i == first_index(data, 50)
    IN  IF Len(data) > 14 /\ i > 0 /\ Len(data) - i + 1 > 14
        THEN <<[task |-> "process_packet",
                buffer |-> SubSeq(data, i, Len(data))]>>
        ELSE <<>>

\* main: args.DRYRUN, the dump file is opened
open_dumpfile ==
    /\ main = "start"
    /\ args.DRYRUN
    /\ main' = "dryrun"
    /\ UNCHANGED <<fatal, file, line_no, link, opened, bus, stream, tasks, log,
                   config_vars, enum_vars, pure_vars, ingress_vars,
                   producer_vars, mqtt_vars>>

\* async for line in file: the line is read and process_packet awaited
read_dump_line ==
    /\ main = "dryrun"
    /\ line_no < Len(file)
    /\ line_no' = line_no + 1
    /\ LET line == read_line(file[line_no + 1])
       IN  IF line.exc # None
           THEN /\ main' = "raised"
                /\ fatal' = line.exc
                /\ UNCHANGED log
           ELSE /\ log' = Append(log,
                                 outcome(line.frame,
                                         process_packet_result(args,
                                                               line.frame)))
                /\ UNCHANGED <<main, fatal>>
    /\ UNCHANGED <<file, link, opened, bus, stream, tasks,
                   config_vars, enum_vars, pure_vars, ingress_vars,
                   producer_vars, mqtt_vars>>

\* the file is at its end: main returns
end_of_dumpfile ==
    /\ main = "dryrun"
    /\ line_no = Len(file)
    /\ main' = "ended"
    /\ UNCHANGED <<fatal, file, line_no, link, opened, bus, stream, tasks, log,
                   config_vars, enum_vars, pure_vars, ingress_vars,
                   producer_vars, mqtt_vars>>

\* main: not args.DRYRUN, serial_connection is entered
serial_connection ==
    /\ main = "start"
    /\ ~args.DRYRUN
    /\ main' = "connecting"
    /\ link' = "Connecting"
    /\ UNCHANGED <<fatal, file, line_no, opened, bus, stream, tasks, log,
                   config_vars, enum_vars, pure_vars, ingress_vars,
                   producer_vars, mqtt_vars>>

\* serial_asyncio.open_serial_connection returns or raises
open_serial_connection ==
    /\ main = "connecting"
    /\ \E ok \in BOOLEAN :
         IF ok
         THEN /\ main' = "serial"
              /\ link' = "Connected"
              /\ opened' = opened + 1
              /\ UNCHANGED fatal
         ELSE /\ main' = "raised"
              /\ link' = "Disconnected"
              /\ fatal' = "SerialException"
              /\ UNCHANGED opened
    /\ UNCHANGED <<file, line_no, bus, stream, tasks, log,
                   config_vars, enum_vars, pure_vars, ingress_vars,
                   producer_vars, mqtt_vars>>

\* the bus delivers the next segment to the open port
bus_sends ==
    /\ link = "Connected"
    /\ Len(bus) < MaxSegments
    /\ \E k \in 1 .. Len(Segments) :
        /\ bus' = Append(bus, k)
        /\ stream' = stream \o Segments[k]
    /\ UNCHANGED <<main, fatal, file, line_no, link, opened, tasks, log,
                   config_vars, enum_vars, pure_vars, ingress_vars,
                   producer_vars, mqtt_vars>>

\* the event loop is free to run a task: no callback sits in time.sleep
loop_free == mpc # "sleeping"

\* serial_read: reader.readuntil(b'\x34') returns the bytes up to the next
\* 0x34 and a process_buffer task is created for them
serial_read ==
    /\ main = "serial"
    /\ loop_free
    /\ first_index(stream, 52) > 0
    /\ LET n == first_index(stream, 52)
       IN  /\ tasks' = Append(tasks, [task |-> "process_buffer",
                                      buffer |-> SubSeq(stream, 1, n)])
           /\ stream' = SubSeq(stream, n + 1, Len(stream))
    /\ UNCHANGED <<main, fatal, file, line_no, link, opened, bus, log,
                   config_vars, enum_vars, pure_vars, ingress_vars,
                   producer_vars, mqtt_vars>>

\* reader.readuntil raises: the port is gone
read_error ==
    /\ main = "serial"
    /\ loop_free
    /\ main' = "raised"
    /\ link' = "Disconnected"
    /\ \E exc \in {"IncompleteReadError", "SerialException"} : fatal' = exc
    /\ UNCHANGED <<file, line_no, opened, bus, stream, tasks, log,
                   config_vars, enum_vars, pure_vars, ingress_vars,
                   producer_vars, mqtt_vars>>

\* the event loop runs the oldest process_buffer task
process_buffer ==
    /\ main = "serial"
    /\ loop_free
    /\ tasks # <<>>
    /\ Head(tasks).task = "process_buffer"
    /\ tasks' = Tail(tasks) \o process_buffer_tasks(Head(tasks).buffer)
    /\ UNCHANGED <<main, fatal, file, line_no, link, opened, bus, stream, log,
                   config_vars, enum_vars, pure_vars, ingress_vars,
                   producer_vars, mqtt_vars>>

\* the event loop runs the oldest process_packet task
process_packet_task ==
    /\ main = "serial"
    /\ loop_free
    /\ tasks # <<>>
    /\ Head(tasks).task = "process_packet"
    /\ tasks' = Tail(tasks)
    /\ log' = Append(log,
                     outcome(Head(tasks).buffer,
                             process_packet_result(args,
                                                   Head(tasks).buffer)))
    /\ UNCHANGED <<main, fatal, file, line_no, link, opened, bus, stream,
                   config_vars, enum_vars, pure_vars, ingress_vars,
                   producer_vars, mqtt_vars>>

NextMain ==
    \/ open_dumpfile
    \/ read_dump_line
    \/ end_of_dumpfile
    \/ serial_connection
    \/ open_serial_connection
    \/ bus_sends
    \/ serial_read
    \/ read_error
    \/ process_buffer
    \/ process_packet_task

InitMain ==
    /\ InitProcess
    /\ InitMQTTClient({DefaultMQTT}, {NoPayload})
    /\ InitRun(IF args.DRYRUN THEN DumpFiles ELSE {<<>>})
    /\ Constructed({DefaultConfig})
    /\ InitEnum({NASA_REPO.DHW_POWER}, {0})
    /\ InitPure

SpecMain == InitMain /\ [][NextMain]_vars

(***************************************************************************)
(* MQTTClient.on_disconnect, on the event loop next to the read side.      *)
(***************************************************************************)
\* the fields of the adapter on_disconnect leaves alone
session_vars ==
    <<mqtt_config, subscriptions, known_topics, retained, inflight, out,
      last, published_points, announced, added, births>>

\* the connection to the broker breaks; the library calls on_disconnect
connection_lost ==
    /\ mpc = "connected"
    /\ mpc' = "lost"
    /\ UNCHANGED <<session_vars, ingress_vars, producer_vars, run_vars>>

\* one round of the loop of on_disconnect: self.client.reconnect() is
\* called and not awaited. The library is not part of the sources: the call
\* returns (gmqtt declares reconnect as a coroutine function, the call makes
\* a coroutine object that nobody runs) and the loop ends, or it raises and
\* the callback sits in time.sleep(5).
reconnect ==
    \E failed_call \in BOOLEAN :
        mpc' = IF failed_call THEN "sleeping" ELSE "disconnected"

on_disconnect ==
    /\ mpc = "lost"
    /\ reconnect
    /\ UNCHANGED <<session_vars, ingress_vars, producer_vars, run_vars>>

\* time.sleep(5) returns and the loop calls reconnect again
time_sleep ==
    /\ mpc = "sleeping"
    /\ reconnect
    /\ UNCHANGED <<session_vars, ingress_vars, producer_vars, run_vars>>

NextReconnect ==
    \/ connect
    \/ connection_lost
    \/ on_disconnect
    \/ time_sleep
    \/ serial_connection
    \/ open_serial_connection
    \/ bus_sends
    \/ serial_read
    \/ process_buffer
    \/ process_packet_task

InitReconnect ==
    /\ InitProcess
    /\ ~args.DRYRUN /\ ~args.DUMPFILE
    /\ InitMQTTClient({DefaultMQTT}, {NoPayload})
    /\ InitRun({<<>>})
    /\ Constructed({DefaultConfig})
    /\ InitEnum({NASA_REPO.DHW_POWER}, {0})
    /\ InitPure

SpecReconnect == InitReconnect /\ [][NextReconnect]_vars

(***************************************************************************)
(* EHSConfig.__init__: load the file, then validate.                       *)
(***************************************************************************)
validate_config ==
    /\ validation = NotValidated
    /\ validation' = validate(ehs_config)
    /\ UNCHANGED <<ehs_config, main, fatal, file, line_no, link, opened, bus,
                   stream, tasks, log, enum_vars, pure_vars, ingress_vars,
                   producer_vars, mqtt_vars>>

NextConfig == validate_config

InitConfig ==
    /\ InitProcess
    /\ InitMQTTClient({DefaultMQTT}, {NoPayload})
    /\ InitRun({<<>>})
    /\ ehs_config \in Configs
    /\ validation = NotValidated
    /\ InitEnum({NASA_REPO.DHW_POWER}, {0})
    /\ InitPure

SpecConfig == InitConfig /\ [][NextConfig]_vars

(***************************************************************************)
(* The value transform of an ENUM point: determine_value for a message of  *)
(* one byte, and _decode_value for the label it gave.                      *)
(***************************************************************************)
EnumPoint(items) ==
    [address |-> 16485, type |-> "ENUM", arithmetic |-> "",
     reverse_arithmetic |-> "", enum |-> items]

\* ENUM points: an on/off mapping, a mapping with the label ON under two
\* keys, a mapping with keys above 127, and a point without mapping
EnumPoints ==
    {EnumPoint(<<[key |-> 0, label |-> "OFF"], [key |-> 1, label |-> "ON"]>>),
     EnumPoint(<<[key |-> 0, label |-> "OFF"], [key |-> 1, label |-> "ON"],
                 [key |-> 2, label |-> "ON"]>>),
     EnumPoint(<<[key |-> 0, label |-> "OFF"], [key |-> 128, label |-> "HIGH"],
                 [key |-> 255, label |-> "ERR"]>>),
     EnumPoint(<<>>)}

\* the bytes of the model
EnumBytes == {0, 1, 2, 3, 128, 255}

\* determine_value(payload, point)
decode_enum ==
    /\ enum_forward.exc = "pending"
    /\ enum_forward' = determine_value_of(enum_point, <<enum_raw>>)
    /\ UNCHANGED <<enum_point, enum_raw, enum_reverse, main, fatal, file,
                   line_no, link, opened, bus, stream, tasks, log,
                   config_vars, pure_vars, ingress_vars, producer_vars,
                   mqtt_vars>>

\* _decode_value(point, label)
encode_enum ==
    /\ enum_forward.exc = None
    /\ enum_reverse.exc = "pending"
    /\ enum_reverse' = _decode_value_of(enum_point, enum_forward.value)
    /\ UNCHANGED <<enum_point, enum_raw, enum_forward, main, fatal, file,
                   line_no, link, opened, bus, stream, tasks, log,
                   config_vars, pure_vars, ingress_vars, producer_vars,
                   mqtt_vars>>

NextEnum ==
    \/ decode_enum
    \/ encode_enum

InitEnumTransform ==
    /\ InitProcess
    /\ InitMQTTClient({DefaultMQTT}, {NoPayload})
    /\ InitRun({<<>>})
    /\ Constructed({DefaultConfig})
    /\ enum_point \in EnumPoints
    /\ enum_raw \in EnumBytes
    /\ enum_forward = Pending
    /\ enum_reverse = NotEncoded
    /\ InitPure

SpecEnum == InitEnumTransform /\ [][NextEnum]_vars

(***************************************************************************)
(* helpertils/messageFinder.py (and messageFinderAnalyser.py):             *)
(* serial_read, the reframer that reads the port byte by byte.             *)
(***************************************************************************)
\* the bytes the port delivers: the two bytes of the start pair, a size
\* byte of 4, and a byte that is none of them
FinderBytes == {50, 0, 4, 9}

MaxFinderBytes == 7

\* one round of the loop for current_byte = <<b>>
finder_step(f, b) ==
    LET appended == IF f.packet_started THEN Append(f.data, b) ELSE f.data
        packet_size ==
            IF f.packet_started /\ Len(appended) = 3
            THEN appended[2] * 256 + appended[3] + 2
            ELSE f.packet_size
        emit == f.packet_started /\ packet_size <= Len(appended)
        data == IF emit THEN <<>> ELSE appended
        start == b = 0 /\ f.prev_byte = <<50>>
    IN  [emitted |-> IF emit THEN <<appended>> ELSE <<>>,
         locals |->
           [prev_byte |-> <<b>>,
            packet_started |-> start \/ (f.packet_started /\ ~emit),
            data |-> IF start THEN data \o f.prev_byte \o <<b>> ELSE data,
            packet_size |-> packet_size]]

\* current_byte = await reader.read(1), and the body of the loop
finder_read ==
    /\ Len(finder_in) < MaxFinderBytes
    /\ \E b \in FinderBytes :
         LET step == finder_step(finder, b)
         IN  /\ finder' = step.locals
             /\ finder_in' = Append(finder_in, b)
             /\ finder_out' = finder_out \o step.emitted
    /\ UNCHANGED <<main_vars, config_vars, enum_vars, extract_vars,
                   to_raw_vars, ingress_vars, producer_vars, mqtt_vars>>

NextFinder == finder_read

InitFinderTool ==
    /\ InitProcess
    /\ ~args.DRYRUN /\ ~args.DUMPFILE
    /\ InitMQTTClient({DefaultMQTT}, {NoPayload})
    /\ InitRun({<<>>})
    /\ Constructed({DefaultConfig})
    /\ InitEnum({NASA_REPO.DHW_POWER}, {0})
    /\ InitPure

SpecFinder == InitFinderTool /\ [][NextFinder]_vars

(***************************************************************************)
(* Message extraction, call by call: NASAPacket._extract_messages and      *)
(* MessageProcessor.extract_messages.                                      *)
(***************************************************************************)
MaxRegion == 6

\* high bytes of message numbers of type 0, 1, 2 and 3
RegionBytes == {0, 2, 4, 6}

\* a structure message: its number and n bytes after it
Structure(n) == <<6, 0>> \o [i \in 1 .. n |-> 0]

\* packet[13:-3]: short regions of every shape, and structure messages on
\* both sides of the 255 bytes
Regions ==
    UNION {[1 .. n -> RegionBytes] : n \in 0 .. MaxRegion}
    \cup {Structure(255), Structure(256)}

\* packet[12]
Capacities == {0, 1, 2, 255}

\* the first call: depth 0 from NASAPacket.parse, depth 1 from
\* MessageProcessor.process_message
FirstCall(fn, capacity, region) ==
    [NoExtraction EXCEPT !.fn = fn, !.capacity = capacity, !.region = region,
                         !.depth = IF fn = "NASAPacket" THEN 0 ELSE 1,
                         !.msg_rest = region, !.state = "calling"]

\* the call returns return_list
returns(e) == [e EXCEPT !.state = "returned"]

\* the call raises
raises(e, exc, why) == [e EXCEPT !.state = "raised", !.exc = exc, !.why = why]

\* one call of NASAPacket._extract_messages, up to its return, its raise or
\* its recursive call
_extract_messages_call(e) ==
    IF extract_stop(e.depth, e.capacity, e.msg_rest) THEN returns(e)
    ELSE
      LET message_number == e.msg_rest[1] * 256 + e.msg_rest[2]
          message_type == message_type_of(message_number)
          payload_size == CASE message_type = 0 -> 1
                            [] message_type = 1 -> 2
                            [] message_type = 2 -> 4
                            [] OTHER -> Len(e.msg_rest)
          payload == PySlice(e.msg_rest, 2, 2 + payload_size)
      IN  IF message_type = 3 /\ structure_capacity_invalid(e.capacity)
          THEN raises(e, "SkipInvalidPacketException", "structure")
          ELSE IF message_type \notin 0 .. 3
          THEN raises(e, "ValueError", "type")
          ELSE IF Len(payload) > 255
          THEN raises(e, "ValueError", "payload")
          ELSE [e EXCEPT
                  !.depth = e.depth + 1,
                  !.msg_rest = PyFrom(e.msg_rest, 2 + payload_size),
                  !.return_list =
                     Append(e.return_list,
                            NASAMessage(message_number, message_type,
                                        payload))]

\* one call of MessageProcessor.extract_messages
extract_messages_call(e) ==
    IF e.depth > e.capacity \/ Len(e.msg_rest) = 0 THEN returns(e)
    ELSE IF Len(e.msg_rest) < 2 THEN raises(e, "IndexError", "index")
    ELSE
      LET message_number == e.msg_rest[1] * 256 + e.msg_rest[2]
          message_type == message_type_of(message_number)
          payload_size == CASE message_type = 0 -> 1
                            [] message_type = 1 -> 2
                            [] message_type = 2 -> 4
                            [] OTHER -> Len(e.msg_rest)
          payload ==
            PySlice(PySlice(e.msg_rest, 2, 2 + payload_size), 0, 255)
      IN  IF message_type = 3 /\ e.capacity # 1
          THEN raises(e, "MessageWarningException", "structure")
          ELSE IF message_type \notin 0 .. 3
          THEN raises(e, "MessageWarningException", "type")
          ELSE [e EXCEPT
                  !.depth = e.depth + 1,
                  !.msg_rest = PyFrom(e.msg_rest, 2 + payload_size),
                  !.return_list =
                     Append(e.return_list,
                            [message_number |-> message_number,
                             message_type |-> message_type,
                             payload |-> payload])]

\* the next call of the recursion is made
extract_call ==
    /\ extraction.state = "calling"
    /\ LET made == [depth |-> extraction.depth,
                    rest |-> Len(extraction.msg_rest)]
           after == IF extraction.fn = "NASAPacket"
                    THEN _extract_messages_call(extraction)
                    ELSE extract_messages_call(extraction)
       IN  extraction' = [after EXCEPT !.calls = Append(extraction.calls, made)]
    /\ UNCHANGED <<main_vars, config_vars, enum_vars, finder_vars,
                   to_raw_vars, ingress_vars, producer_vars, mqtt_vars>>

NextExtract == extract_call

InitExtract ==
    /\ InitProcess
    /\ ~args.DRYRUN /\ ~args.DUMPFILE
    /\ InitMQTTClient({DefaultMQTT}, {NoPayload})
    /\ InitRun({<<>>})
    /\ Constructed({DefaultConfig})
    /\ InitEnum({NASA_REPO.DHW_POWER}, {0})
    /\ InitFinder
    /\ serialized = NotSerialized(NASAMessage(0, 0, <<>>))
    /\ extraction \in {FirstCall(fn, capacity, region) :
                         fn \in {"NASAPacket", "MessageProcessor"},
                         capacity \in Capacities, region \in Regions}

SpecExtract == InitExtract /\ [][NextExtract]_vars

(***************************************************************************)
(* NASAMessage.to_raw                                                      *)
(***************************************************************************)
MaxPayload == 4

\* value >> bits, rounded towards zero
shift_right_truncating(value, bits) ==
    IF value < 0 THEN (value + 2 ^ bits - 1) \div 2 ^ bits
    ELSE value \div 2 ^ bits

\* value >> bits: Python shifts an int of either sign towards minus infinity
shift_right(value, bits) == value \div 2 ^ bits

\* (value >> bits) & 0xFF
byte_at(value, bits) == shift_right(value, bits) % 256

\* to_raw: a list for the types 0, 1 and 2, None for any other type
NASAMessage_to_raw(self) ==
    LET msg_rest_0 == byte_at(self.packet_message, 8)
        msg_rest_1 == self.packet_message % 256
        msgpayload == from_bytes_signed(self.packet_payload)
        list(bytes) == [returned |-> "list", bytes |-> bytes]
    IN  CASE self.packet_message_type = 0 ->
               list(<<msg_rest_0, msg_rest_1, msgpayload % 256>>)
          [] self.packet_message_type = 1 ->
               list(<<msg_rest_0, msg_rest_1, byte_at(msgpayload, 8),
                      msgpayload % 256>>)
          [] self.packet_message_type = 2 ->
               list(<<msg_rest_0, msg_rest_1, byte_at(msgpayload, 24),
                      byte_at(msgpayload, 16), byte_at(msgpayload, 8),
                      msgpayload % 256>>)
          [] OTHER -> [returned |-> "None", bytes |-> <<>>]

\* message numbers of each type, and one with every bit set
MessageNumbers == {16384, 16897, 17410, 1536, 65535}

\* the bytes of the longer payloads: both ends and both sides of the sign
PayloadBytes == {0, 1, 127, 128, 255}

\* every payload of one byte, and payloads of up to MaxPayload bytes
Payloads ==
    [1 .. 1 -> 0 .. 255]
    \cup UNION {[1 .. n -> PayloadBytes] : n \in 0 .. MaxPayload}

\* message.to_raw()
message_to_raw ==
    /\ ~serialized.called
    /\ LET got == NASAMessage_to_raw(serialized.message)
       IN  serialized' = [serialized EXCEPT !.called = TRUE,
                                            !.returned = got.returned,
                                            !.bytes = got.bytes]
    /\ UNCHANGED <<main_vars, config_vars, enum_vars, finder_vars,
                   extract_vars, ingress_vars, producer_vars, mqtt_vars>>

NextToRaw == message_to_raw

InitToRaw ==
    /\ InitProcess
    /\ ~args.DRYRUN /\ ~args.DUMPFILE
    /\ InitMQTTClient({DefaultMQTT}, {NoPayload})
    /\ InitRun({<<>>})
    /\ Constructed({DefaultConfig})
    /\ InitEnum({NASA_REPO.DHW_POWER}, {0})
    /\ InitFinder
    /\ extraction = NoExtraction
    /\ serialized \in {NotSerialized(NASAMessage(number, type, payload)) :
                         number \in MessageNumbers, type \in 0 .. 3,
                         payload \in Payloads}

SpecToRaw == InitToRaw /\ [][NextToRaw]_vars

(***************************************************************************)
(* Properties.                                                             *)
(***************************************************************************)
\* process_packet only appends to the dump file
Capture == args.DUMPFILE /\ ~args.DRYRUN

\* process_packet has run the parser on buffer
Parsed == pc \in {"processed", "serialized"} /\ ~Capture

Accepted == Parsed /\ parsed.exc = None

stored_crc(frame) == frame[Len(frame) - 2] * 256 + frame[Len(frame) - 1]

sent_types == {wire_type(sent.msgs[i]) : i \in 1 .. Len(sent.msgs)}

\* C1: a well-formed frame from an indoor or outdoor unit that carries a
\* message of a repository point ends, once process_packet has run, with the
\* decoded value of every such message published under the point's name.
C1_IngressPublishes ==
    (Parsed /\ sent.kind = "built" /\ WellFormedSend(sent)
       /\ sent.src \in {Outdoor, Indoor})
    => \A i \in 1 .. Len(sent.msgs) :
         LET m == WireMessages[sent.msgs[i]]
             name == search_nasa_table(m.number)
         IN  name # None
             => \E j \in 1 .. Len(published) :
                  /\ published[j].name = name
                  /\ published[j].value = determine_value(m.payload, name).value

\* C2 (as amended): parsing the recorded frame S1 succeeds with source class
\* Outdoor, capacity 2, stored CRC 0xB8CE, and the two messages 0x8237 and
\* 0x8238, each of type 1 with the two payload bytes 00 20 and 00 23.
C2_S1Parsed ==
    (Parsed /\ buffer = S1)
    => /\ parsed.exc = None
       /\ parsed.pkt.packet_source_address_class = Outdoor
       /\ parsed.pkt.packet_capacity = 2
       /\ parsed.pkt.packet_crc16 = 47310
       /\ parsed.pkt.packet_messages =
            <<NASAMessage(33335, 1, <<0, 32>>), NASAMessage(33336, 1, <<0, 35>>)>>

C2_S1Reached == Parsed /\ buffer = S1 /\ parsed.exc = None

\* C2 as stated: the two messages have type 0 and the one-byte payloads 20, 23.
C2_S1AsStated ==
    (Parsed /\ buffer = S1)
    => /\ parsed.exc = None
       /\ parsed.pkt.packet_source_address_class = Outdoor
       /\ parsed.pkt.packet_capacity = 2
       /\ parsed.pkt.packet_crc16 = 47310
       /\ parsed.pkt.packet_messages =
            <<NASAMessage(33335, 0, <<32>>), NASAMessage(33336, 0, <<35>>)>>

\* every accepted buffer, and every buffer whose packet reached the message
\* processor, stores the CRC of its bytes [3, len-3)
CrcOfAccepted ==
    /\ Accepted => stored_crc(buffer) = crc_hqx(PyCut(buffer, 3, 3), 0)
    /\ (Parsed /\ handed # <<>>)
         => stored_crc(buffer) = crc_hqx(PyCut(buffer, 3, 3), 0)

RECURSIVE number_indexes(_, _)
number_indexes(msgs, at) ==
    IF Len(msgs) = 0 THEN {}
    ELSE {at} \cup number_indexes(Tail(msgs),
                                  at + Len(wire_message(Head(msgs))))

C5_CapacityIsCount ==
    Accepted => Len(parsed.pkt.packet_messages) = parsed.pkt.packet_capacity

\* C6: a frame whose payload region holds bytes after its first `capacity`
\* messages is not accepted and no message of it is processed.
C6_TrailingBytesDropped ==
    (Parsed /\ sent.kind = "built" /\ sent.src \in AddressClassEnum
       /\ 3 \notin sent_types /\ sent.cap <= Len(sent.msgs)
       /\ (sent.cap < Len(sent.msgs) \/ sent.tail # <<>>))
    => parsed.exc # None /\ handed = <<>>

kept_fields(pkt) == [pkt EXCEPT !.packet_size = 0, !.packet_crc16 = 0]

\* C8: a parsed packet whose messages have type 0, 1 or 2 is serialized by
\* to_raw to bytes that parse to a packet equal to it in every field but size
\* and CRC.
C8_RoundTrip ==
    (pc = "serialized"
       /\ \A i \in 1 .. Len(parsed.pkt.packet_messages) :
            parsed.pkt.packet_messages[i].packet_message_type \in 0 .. 2)
    => /\ raw.exc = None
       /\ reparsed.exc = None
       /\ kept_fields(reparsed.pkt) = kept_fields(parsed.pkt)
\* a frame as the bus wants it: start and end byte, size = len - 2, the CRC
\* of bytes [3, len-3), accepted by parse
well_formed_frame(frame) ==
    /\ Len(frame) >= 14
    /\ frame[1] = 50
    /\ frame[Len(frame)] = 52
    /\ frame[2] * 256 + frame[3] = Len(frame) - 2
    /\ stored_crc(frame) = crc_hqx(PyCut(frame, 3, 3), 0)
    /\ parse(frame).exc = None

addresses_of(names) ==
    [i \in 1 .. Len(names) |-> NASA_REPO[names[i]].address]

\* C9: a finished read_request for N repository points has handed
\* ceil(N / 10) packets to the transport; the k-th is a Read packet to
\* BroadcastSetLayer carrying the addresses of points 10k .. 10k+9 in order.
C9_ReadChunks ==
    (ppc["poll"] \in {"done", "raised"} /\ ppc["control"] = "idle"
       /\ \A i \in 1 .. Len(request["poll"].list) :
            request["poll"].list[i] \in DOMAIN NASA_REPO)
    => /\ ppc["poll"] = "done"
       /\ Len(transport) = (Len(request["poll"].list) + 9) \div 10
       /\ \A k \in 1 .. Len(transport) :
            LET packet == parse(transport[k])
                chunk == PySlice(request["poll"].list, (k - 1) * 10, k * 10)
            IN  /\ packet.exc = None
                /\ packet.pkt.packet_data_type = DataType_Read
                /\ packet.pkt.packet_dest_address_class = BroadcastSetLayer
                /\ [i \in 1 .. Len(packet.pkt.packet_messages) |->
                      packet.pkt.packet_messages[i].packet_message]
                     = addresses_of(chunk)

handed_indexes(t, op) ==
    {k \in 1 .. Len(handed_by) : handed_by[k] = [task |-> t, op |-> op]}

known_points(names) ==
    \A i \in 1 .. Len(names) : names[i] \in DOMAIN NASA_REPO

expected_payload(message, text) ==
    to_bytes_signed(
      _decode_value(message, text).value,
      CASE message_type_of(NASA_REPO[message].address) = 0 -> 1
        [] message_type_of(NASA_REPO[message].address) = 1 -> 2
        [] OTHER -> 4)

\* the control task is in a write of a text that can be encoded for a point
\* of the repository
writable_request ==
    /\ request["control"].op = "write"
    /\ request["control"].message \in DOMAIN NASA_REPO
    /\ request["control"].value.kind = "str"
    /\ _decode_value(request["control"].message,
                     request["control"].value.text).value.kind = "int"
    /\ expected_payload(request["control"].message,
                        request["control"].value.text).exc = None

\* C12: write_request(point, text) has handed to the transport exactly one
\* write packet: one message with the point's address, JIGTester to Indoor,
\* Normal, Request, the payload being the reverse-transformed integer in
\* 1, 2 or 4 bytes by the message type of the address.
C12_WritePacket ==
    (ppc["control"] # "idle" /\ writable_request)
    => /\ Cardinality(handed_indexes("control", "write")) = 1
       /\ \A k \in handed_indexes("control", "write") :
            LET packet == parse(transport[k])
            IN  /\ packet.exc = None
                /\ packet.pkt.packet_source_address_class = JIGTester
                /\ packet.pkt.packet_dest_address_class = Indoor
                /\ packet.pkt.packet_type = PacketType_Normal
                /\ packet.pkt.packet_data_type = DataType_Request
                /\ Len(packet.pkt.packet_messages) = 1
                /\ packet.pkt.packet_messages[1].packet_message
                     = NASA_REPO[request["control"].message].address
                /\ packet.pkt.packet_messages[1].packet_payload
                     = expected_payload(request["control"].message,
                                        request["control"].value.text).bytes

\* C13: a finished write_request, whatever read_request_after was, has sent
\* the write packet and after it, at least 1 s later, one read packet for
\* exactly the point written.
C13_ReadAfterWrite ==
    (ppc["control"] \in {"done", "raised"} /\ writable_request)
    => /\ ppc["control"] = "done"
       /\ Cardinality(handed_indexes("control", "write")) = 1
       /\ Cardinality(handed_indexes("control", "read")) = 1
       /\ \A w \in handed_indexes("control", "write") :
            \A r \in handed_indexes("control", "read") :
              /\ w < r
              /\ handed_at[r] - handed_at[w] >= 1000
              /\ parse(transport[r]).exc = None
              /\ [i \in 1 .. Len(parse(transport[r]).pkt.packet_messages) |->
                    parse(transport[r]).pkt.packet_messages[i].packet_message]
                   = <<NASA_REPO[request["control"].message].address>>

discovery_enabled == Len(mqtt_config.homeAssistantAutoDiscoverTopic) > 0

\* the known-devices messages the broker has sent that have not arrived
known_devices_in_flight ==
    {i \in 1 .. Len(inflight) :
        inflight[i].topic = KnownDevicesTopic(mqtt_config)}

\* C14: once connected the adapter holds a subscription to
\* {prefix}/entity/+/set, and a new value the controller has published on
\* {prefix}/entity/{point}/set is on its way to on_message or has become a
\* write request of the producer.
C14_InboundCommand ==
    (mpc = "connected" /\ discovery_enabled)
    => /\ <<mqtt_config.topicPrefix, "entity", "+", "set">> \in subscriptions
       /\ last.op = "command"
            => \/ \E i \in 1 .. Len(inflight) :
                     inflight[i].topic
                       = <<mqtt_config.topicPrefix, "entity", last.name, "set">>
               \/ /\ request["control"].op = "write"
                  /\ request["control"].message = last.name

\* neither the clean flag nor an 'online' of the controller in this session
no_reset ==
    /\ ~mqtt_config.CLEAN_KNOWN_DEVICES
    /\ births = 0
    /\ onlines_in_flight = 0

\* C16: in a session without reset and with discovery on, no step makes
\* known_topics shorter, and after every step each point publish_message was
\* called with stands exactly once in the retained known-devices payload.
C16_KnownDevicesMonotonic ==
    [][(discovery_enabled /\ no_reset /\ no_reset')
       => /\ Len(known_topics') >= Len(known_topics)
          /\ \A point \in published_points' :
                Cardinality({i \in 1 .. Len(retained') :
                                retained'[i] = point}) = 1]_vars

\* the names in the retained known-devices payload
retained_list == SelectSeq(retained, LAMBDA x : x \notin {",", " "})

\* C17: after an add, when no known-devices message is in flight, the list
\* known_topics is the list in the retained known-devices message.
C17_MirrorConverges ==
    (added # {} /\ known_devices_in_flight = {})
    => /\ retained # NoPayload
       /\ known_topics = retained_list

C17_MirrorSettled ==
    /\ added # {}
    /\ known_devices_in_flight = {}
    /\ Len(known_topics) >= 2
    /\ last.op = "on_message"

\* C18: after on_message has handled an 'online' of the controller, every
\* point publish_message is called with has a discovery config published
\* after that 'online', and with nothing in flight and no add since, the
\* list known_topics is empty.
C18_BirthReannounces ==
    births > 0
    => /\ published_points \subseteq announced
       /\ (inflight = <<>> /\ announced = {}) => known_topics = <<>>

\* the publishes of the last call to the given topic
out_indexes(topic) == {i \in 1 .. Len(out) : out[i].topic = topic}

live == ~args.DRYRUN /\ ~args.DUMPFILE

\* the reader has nothing left to do for what the bus has delivered
quiescent == main = "serial" /\ tasks = <<>> /\ first_index(stream, 52) = 0

\* C21: once the port has been opened the read loop keeps running whatever
\* error has happened, and a valid frame that follows a frame with a wrong
\* CRC is still parsed without error.
C21_ErrorsIsolated ==
    (~args.DRYRUN /\ opened > 0)
    => /\ main = "serial"
       /\ (live /\ quiescent)
            => \A k \in 1 .. Len(bus) - 1 :
                 (Segments[bus[k]] = S2 /\ Segments[bus[k + 1]] = S1)
                 => \E i \in 1 .. Len(log) :
                      log[i].buffer = S1 /\ log[i].exc = None

\* C22: every buffer the read side hands to process_packet is as long as its
\* size field says (size + 2) and ends with 0x34.
C22_FramesComplete ==
    ~args.DRYRUN
    => \A i \in 1 .. Len(log) :
         LET frame == log[i].buffer
         IN  /\ Len(frame) = frame[2] * 256 + frame[3] + 2
             /\ frame[Len(frame)] = 52

\* the pieces readuntil cuts the bytes into, in order
RECURSIVE read_chunks(_)
read_chunks(bytes) ==
    IF first_index(bytes, 52) = 0 THEN <<>>
    ELSE <<SubSeq(bytes, 1, first_index(bytes, 52))>>
           \o read_chunks(SubSeq(bytes, first_index(bytes, 52) + 1,
                                 Len(bytes)))

\* the buffers process_buffer picks from the bytes of the bus, in bus order
buffers_in_bus_order ==
    LET pieces == read_chunks(Flatten([k \in 1 .. Len(bus) |->
                                           Segments[bus[k]]]))
    IN  Flatten([k \in 1 .. Len(pieces) |->
                    LET made == process_buffer_tasks(pieces[k])
                    IN  [j \in 1 .. Len(made) |-> made[j].buffer]])

\* the points of a packet with their values, in wire order
RECURSIVE states_in_wire_order(_)
states_in_wire_order(messages) ==
    IF messages = <<>> THEN <<>>
    ELSE LET name == search_nasa_table(messages[1].packet_message)
         IN  (IF name = None THEN <<>>
              ELSE <<[name |-> name,
                      value |-> determine_value(messages[1].packet_payload,
                                                name).value]>>)
             \o states_in_wire_order(Tail(messages))

\* packets are processed in the order of their frames on the bus
packets_in_order ==
    \A i \in 1 .. Len(log) : log[i].buffer = buffers_in_bus_order[i]

C26_TransportReconnects ==
    (~args.DRYRUN /\ link = "Disconnected")
    => main \in {"start", "connecting"}

\* C27: in a dry run the port is never opened, the lines read so far have
\* been handed to process_packet one by one in file order, no line ends the
\* program, and the program ends after the last line.
C27_DryRun ==
    args.DRYRUN
    => /\ opened = 0 /\ link = "Disconnected"
       /\ main \in {"start", "dryrun", "ended"}
       /\ Len(log) = line_no
       /\ \A i \in 1 .. Len(log) : log[i].buffer = file[i].frame
       /\ main = "ended" => line_no = Len(file)

\* the messages of the packets handed to process_message so far, in order
messages_received ==
    Flatten([i \in 1 .. Len(log) |->
               IF log[i].route = "process_message"
               THEN parse(log[i].buffer).pkt.packet_messages
               ELSE <<>>])

\* everything published for the packets processed so far
all_published == Flatten([i \in 1 .. Len(log) |-> log[i].published])

\* the positions among the first j messages received that carry this number
seen(j, number) ==
    {k \in 1 .. j : messages_received[k].packet_message = number}

\* the value of the last message with this number among the first j
last_value(j, number) ==
    LET k == CHOOSE m \in seen(j, number) : \A n \in seen(j, number) : n <= m
    IN  from_bytes_signed(messages_received[k].packet_payload)

\* the addresses of the inputs of HEAT_OUTPUT: the outdoor return
\* temperature (0x82DF), the outdoor supply temperature (0x82E0) and the
\* calculated flow (0x42E9)
HeatAddresses == [TW1 |-> 33503, TW2 |-> 33504, FLOW |-> 17129]

\* |TW2 - TW1| * (flow / 60) * 4190 in ten-thousandths, from the raw tenths
heat_output(tw1, tw2, flow) ==
    ((IF tw2 >= tw1 THEN tw2 - tw1 ELSE tw1 - tw2) * flow * 20950) \div 3

\* C24: whenever a message updates the return temperature, the supply
\* temperature or the flow and all three are present, HEAT_OUTPUT is
\* published with v = |TW2 - TW1| * (flow / 60) * 4190 if 0 < v < 15000, and
\* no HEAT_OUTPUT outside 0 < v < 15000 is ever published.
C24_DerivedMetrics ==
    live
    => /\ \A j \in 1 .. Len(messages_received) :
            LET tw1 == last_value(j, HeatAddresses.TW1)
                tw2 == last_value(j, HeatAddresses.TW2)
                flow == last_value(j, HeatAddresses.FLOW)
                inputs == {HeatAddresses[n] : n \in DOMAIN HeatAddresses}
            IN  (/\ messages_received[j].packet_message \in inputs
                 /\ \A n \in inputs : seen(j, n) # {}
                 /\ heat_output(tw1, tw2, flow) > 0
                 /\ heat_output(tw1, tw2, flow) < 150000000)
                => \E p \in 1 .. Len(all_published) :
                     /\ all_published[p].name = "HEAT_OUTPUT"
                     /\ all_published[p].value = heat_output(tw1, tw2, flow)
       /\ \A p \in 1 .. Len(all_published) :
            all_published[p].name = "HEAT_OUTPUT"
            => /\ all_published[p].value > 0
               /\ all_published[p].value < 150000000

\* C25: after the connection to the broker was lost the adapter does not
\* give up: it is connected again, about to call reconnect or waiting 5 s
\* for the next try; and while it waits the tasks of the read side can run.
C25_MQTTReconnects ==
    /\ mpc # "disconnected"
    /\ (mpc = "sleeping" /\ main = "serial" /\ tasks # <<>>)
         => ENABLED (process_buffer \/ process_packet_task)

\* a parameter the program cannot run without is missing: the device or
\* the baudrate of the serial section, the ip or the port of the tcp
\* section, the url or the port of the broker, one of user and password
\* without the other, or the serial and tcp sections are both missing or
\* both there
required_missing(c) ==
    \/ c.SERIAL.none = c.TCP.none
    \/ ~c.SERIAL.none /\ c.SERIAL.keys # {"device", "baudrate"}
    \/ ~c.TCP.none /\ c.TCP.keys # {"ip", "port"}
    \/ c.MQTT.none
    \/ ~({"broker-url", "broker-port"} \subseteq c.MQTT.keys)
    \/ ("user" \in c.MQTT.keys) # ("password" \in c.MQTT.keys)

\* C28: validate ends with ConfigException whenever a required parameter is
\* missing, and with no exception of another type for any configuration.
C28_ConfigValidation ==
    validation # NotValidated
    => /\ validation.exc \in {None, "ConfigException"}
       /\ required_missing(ehs_config) => validation.exc = "ConfigException"

\* C29: for an ENUM point with a mapping determine_value gives the label of
\* the raw value if it is a key, and the text "Unknown enum value: {r}", with
\* no exception, if it is not.
C29_EnumDecoding ==
    (enum_forward.exc # "pending" /\ enum_point.enum # <<>>)
    => enum_forward =
         [exc |-> None,
          value |-> IF has_key(enum_point.enum, enum_raw)
                    THEN label_of(enum_point.enum, enum_raw)
                    ELSE "Unknown enum value: " \o ToString(enum_raw)]

\* the place of a key among the items of the mapping of enum_point
item_of(key) ==
    CHOOSE i \in 1 .. Len(enum_point.enum) : enum_point.enum[i].key = key

\* the label of the key enum_raw has been decoded and encoded again
reversed ==
    enum_reverse.exc # "pending" /\ has_key(enum_point.enum, enum_raw)

\* C30 as stated: for every key r of the mapping of an ENUM point the
\* reverse transform of the label of r is r, also when several keys carry
\* the same label and for keys above 127.
C30_AsStated ==
    reversed => enum_reverse = [exc |-> None, value |-> IntValue(enum_raw)]

\* C30 (as amended): for every key r of the mapping of an ENUM point, keys
\* above 127 included, the reverse transform of the label of r is the first
\* key of the mapping that carries this label: it is r itself unless an
\* earlier key has the same label.
C30_EnumRoundTrip ==
    reversed
    => /\ enum_reverse.exc = None
       /\ enum_reverse.value.kind = "int"
       /\ has_key(enum_point.enum, enum_reverse.value.int)
       /\ LET enum == enum_point.enum
              r == item_of(enum_raw)
              k == item_of(enum_reverse.value.int)
          IN  /\ enum[k].label = enum[r].label
              /\ k <= r
              /\ \A j \in 1 .. k - 1 : enum[j].label # enum[r].label

\* a key whose label an earlier key carries too has gone both ways
C30_DuplicateReversed ==
    /\ reversed
    /\ \E j \in 1 .. item_of(enum_raw) - 1 :
         enum_point.enum[j].label = enum_point.enum[item_of(enum_raw)].label

\* `part` is a contiguous slice of `bytes`
is_slice(part, bytes) ==
    \E i \in 0 .. Len(bytes) - Len(part) :
        SubSeq(bytes, i + 1, i + Len(part)) = part

\* C31: the frame being collected and every frame emitted are contiguous
\* slices of the bytes received that begin with the pair (0x32, 0x00): each
\* byte read while framing went into the frame exactly once.
C31_FrameIsSlice ==
    /\ \A k \in 1 .. Len(finder_out) :
         /\ is_slice(finder_out[k], finder_in)
         /\ SubSeq(finder_out[k], 1, 2) = <<50, 0>>
    /\ finder.packet_started
         => /\ is_slice(finder.data, finder_in)
            /\ SubSeq(finder.data, 1, 2) = <<50, 0>>

\* C32: once the reader has nothing left to do, a well-formed frame that
\* the bus delivered after nothing but noise and well-formed frames has
\* been handed to process_packet as it was sent, and the reader still runs.
C32_NoiseTolerated ==
    (live /\ opened > 0 /\ fatal = None /\ tasks = <<>>
       /\ first_index(stream, 52) = 0)
    => /\ main = "serial"
       /\ \A k \in 1 .. Len(bus) :
            (/\ Segments[bus[k]] \in CleanFrames
             /\ \A j \in 1 .. k - 1 :
                  Segments[bus[j]] \in Noise \cup CleanFrames)
            => \E i \in 1 .. Len(log) : log[i].buffer = Segments[bus[k]]

ExtractionAgrees ==
    extraction.state \in {"returned", "raised"}
    => LET whole == IF extraction.fn = "NASAPacket"
                    THEN extract_messages_rec(0, extraction.capacity,
                                              extraction.region, <<>>)
                    ELSE extract_messages(1, extraction.capacity,
                                          extraction.region, <<>>)
       IN  /\ whole.exc = extraction.exc
           /\ whole.exc = None => whole.list = extraction.return_list

\* the parts of C34 that are about every call of the recursion
ExtractionShortens ==
    /\ \A i \in 2 .. Len(extraction.calls) :
         extraction.calls[i].rest < extraction.calls[i - 1].rest
    /\ \A i \in 1 .. Len(extraction.calls) :
         extraction.calls[i].depth <= extraction.capacity + 1
    /\ Len(extraction.calls) <= extraction.capacity + 2
    /\ Len(extraction.return_list) <= extraction.capacity + 1

\* C34: message extraction terminates for every region and capacity: each
\* recursive call has a strictly shorter rest than the call before it, no
\* call is deeper than the capacity allows, and the recursion ends by
\* returning the list or by raising for an unknown type, for the structure
\* rule or for a payload over 255 bytes, and in no other way.
C34_ExtractionTerminates ==
    /\ ExtractionShortens
    /\ extraction.state = "raised"
         => extraction.why \in {"type", "structure", "payload"}


\* the payload length that goes with a message type
payload_size_of(type) == CASE type = 0 -> 1 [] type = 1 -> 2 [] OTHER -> 4

\* to_raw was called on a message of type 0, 1 or 2 whose payload has the
\* length of its type
sized_message ==
    /\ serialized.called
    /\ serialized.message.packet_message_type \in 0 .. 2
    /\ Len(serialized.message.packet_payload)
         = payload_size_of(serialized.message.packet_message_type)

\* C35: to_raw of a message of type 0, 1 or 2 with a payload of exactly 1, 2
\* or 4 bytes returns 2 + (1|2|4) bytes: the two bytes of the message number,
\* then the bytes of the payload unchanged, whatever their sign.
C35_ToRawPayload ==
    sized_message
    => /\ serialized.returned = "list"
       /\ Len(serialized.bytes)
            = 2 + payload_size_of(serialized.message.packet_message_type)
       /\ serialized.bytes
            = <<(serialized.message.packet_message \div 256) % 256,
                serialized.message.packet_message % 256>>
              \o serialized.message.packet_payload

\* to_raw has returned the bytes of a negative two-byte payload whose low
\* byte is not zero
C35_NegativePayload ==
    /\ sized_message
    /\ serialized.message.packet_message_type = 1
    /\ serialized.message.packet_payload = <<255, 1>>
    /\ serialized.bytes[3] = 255 /\ serialized.bytes[4] = 1


\* no name stands twice in the list
duplicate_free(list) ==
    \A i, j \in 1 .. Len(list) : i # j => list[i] # list[j]

\* C36: the local known_devices list never holds a point twice (the list an
\* earlier session left at the broker holds none twice), and neither does
\* any list on its way back from the broker or retained there.
C36_NoDuplicate ==
    /\ duplicate_free(known_topics)
    /\ \A i \in known_devices_in_flight :
         duplicate_free(payload_devices(inflight[i].payload))
    /\ retained # NoPayload => duplicate_free(payload_devices(retained))

\* a point already in a list of two is published again, after the list of
\* the earlier session has been received
C36_KnownAgain ==
    /\ Len(known_topics) >= 2
    /\ known_topics[1] = "COMP_TEMP"
    /\ "COMP_TEMP" \notin added
    /\ last.op = "publish_message" /\ last.known


\* entity[key] of a discovery payload
entity_field(payload, key) ==
    payload[(CHOOSE i \in 1 .. Len(payload) : payload[i] = key) + 1]

\* C37: with discovery on, the topic publish_message publishes a point's
\* state on is the state_topic of that point's discovery config, as
\* auto_discover_hass announces it in this session: in either name style,
\* for sensor and binary_sensor points, at the first publish and later.
C37_StateTopicAnnounced ==
    (last.op = "publish_message" /\ discovery_enabled)
    => LET state == out[Len(out)]
           config == auto_discover_hass(mqtt_config, last.name)
       IN  /\ join_text("/", state.topic)
                = entity_field(config.payload, "state_topic")
           /\ ~last.known
                => /\ out[1] = config
                   /\ entity_field(out[1].payload, "platform") = state.topic[2]

\* a binary_sensor point is announced and published with camel-case names
C37_BinarySensorCamelCase ==
    /\ last.op = "publish_message" /\ discovery_enabled
    /\ mqtt_config.useCamelCaseTopicNames
    /\ last.name = "DHW_POWER" /\ ~last.known
    /\ Len(out) = 3
    /\ out[3].topic = <<"homeassistant", "binary_sensor",
                        "samsung_ehssentinel_dhwpower", "state">>


write_fails_in_coding ==
    /\ request["control"].op = "write"
    /\ request["control"].value.kind = "str"
    /\ LET message == request["control"].message
           decoded == _decode_value(message, request["control"].value.text)
       IN  \/ message \notin DOMAIN NASA_REPO
           \/ decoded.exc # None
           \/ decoded.value.kind # "int"
           \/ _build_message(message, decoded.value).exc = "OverflowError"

\* C39: a write_request that fails while decoding or encoding the value has
\* ended with that error, has written no byte to the transport and is
\* followed by no read.
C39_WriteAtomic ==
    write_fails_in_coding
    => /\ ppc["control"] = "raised"
       /\ raised["control"]
            \in {"KeyError", "AttributeError", "OverflowError"}
       /\ \A i \in 1 .. Len(handed_by) : handed_by[i].task # "control"
       /\ chunks["control"] = <<>>

\* 21 degrees for COMP_TEMP become 210, which one signed byte cannot hold:
\* the write has ended with OverflowError and an empty transport
C39_OverflowNothingWritten ==
    /\ write_fails_in_coding
    /\ request["control"].message = "COMP_TEMP"
    /\ request["control"].value.text = "21"
    /\ raised["control"] = "OverflowError"
    /\ transport = <<>>


\* C40: with a dump file and without dry-run, process_packet only appends
\* the buffer to the dump file: the buffer is not parsed, no packet is
\* handed to the message processor, no branch of the routing is taken,
\* nothing is caught and nothing is published.
C40_CaptureOnly ==
    (Capture /\ pc = "processed")
    => /\ dumped = <<buffer>>
       /\ parsed = Raise(None, None)
       /\ caught = None
       /\ route = None
       /\ handed = <<>>
       /\ published = <<>>

\* the recorded frame of an outdoor unit has been dumped in capture mode
C40_FrameCaptured ==
    /\ Capture /\ pc = "processed"
    /\ buffer = S1
    /\ dumped = <<S1>>
    /\ handed = <<>>

====
